---- MODULE Spec2Model ----
(***************************************************************************)
(* HedgeSync: the backtest engine (src/backtest_engine.py) and the stress  *)
(* test analyzer (src/stress_test.py) as state machines.                   *)
(*                                                                         *)
(* Conventions.  A pandas DataFrame is a sequence of rows, each a record   *)
(* that carries its row label in the field idx.  A Python dict is a        *)
(* record; None is the record None.  A cell that may be NaN is a sequence: *)
(* NaN is <<>> and the number v is <<v>>.  Money and prices are integers;  *)
(* a hedge ratio is the fraction num/den, and the inputs are chosen so     *)
(* that spot_quantity * hedge_ratio is an integer, as 10 * 0.5 is.         *)
(* A real number that need not be an integer (a mean, a variance) is kept  *)
(* as the pair <<numerator, denominator>>.  A DataFrame or a list that an  *)
(* operation returns is returned in a record, [rows |-> ...] or            *)
(* [periods |-> ...], so that every returned value is a record.            *)
(***************************************************************************)
EXTENDS Integers, Sequences, FiniteSets, TLC

VARIABLES
    backtest_results,   \* BacktestEngine.backtest_results
    stress_periods,     \* StressTestAnalyzer.stress_periods
    stress_results,     \* StressTestAnalyzer.stress_results
    op,                 \* the operation last called
    args,               \* its arguments
    raised,             \* the exception it raised, NoError when it returned
    ret,                \* the value it returned, None when it raised
    last_run,           \* history: the latest run_backtest call that returned
    replaced,           \* history: a run_backtest replaced another run's result
    calls,              \* history: the number of calls made
    last_calculation,   \* HedgeRatioCalculator.last_calculation
    passed              \* the frames and records passed to the last call, as
                        \* its caller finds them after the call

vars ==
    <<backtest_results, stress_periods, stress_results, op, args, raised, ret, last_run,
      replaced, calls, last_calculation, passed>>

(***************************************************************************)
(* Bounds of the model.                                                    *)
(***************************************************************************)
MaxLen == 3

SpotPrices == {100, 105}
FuturePrices == {50, 54}
\* Every series opens at these prices: the first row only seeds the differences.
FirstPrices == [spot_price |-> 100, future_price |-> 50]
SpotQuantities == {10}
HedgeRatios == {[num |-> 1, den |-> 2]}
\* Dates are day numbers; the first day of every series.
FirstDate == 20

(***************************************************************************)
(* Python values.                                                          *)
(***************************************************************************)
None == [none |-> TRUE]
EmptyDict == [empty |-> TRUE]
NoError == "none"
NaN == <<>>

SHORT_HEDGE == "short_hedge"
LONG_HEDGE == "long_hedge"
HedgeDirection == {LONG_HEDGE, SHORT_HEDGE}

\* The messages of the ValueErrors the engine raises.
ErrEmptyData == "ValueError: data is empty, cannot run the backtest"
ErrNoBacktest == "ValueError: run the backtest first"
ErrNoPeriodData == "ValueError: no data in the given period"
\* What _calculate_performance_metrics raises on a record set with no row:
\* the minimum of an empty date column has no strftime.
ErrNoRows == "ValueError: NaT has no strftime"

(***************************************************************************)
(* Sequences.                                                              *)
(***************************************************************************)
RECURSIVE SumSeq(_)
SumSeq(s) == IF s = <<>> THEN 0 ELSE s[1] + SumSeq(Tail(s))

Column(frame, c) == [i \in 1..Len(frame) |-> frame[i][c]]

MinOf(S) == CHOOSE x \in S : \A y \in S : x <= y
MaxOf(S) == CHOOSE x \in S : \A y \in S : x >= y
Range(s) == {s[i] : i \in 1..Len(s)}

Abs(x) == IF x < 0 THEN -x ELSE x

(***************************************************************************)
(* The aligned series: what align_data returns, rows labelled 0..n-1 by    *)
(* reset_index, one row per date, dates ascending.                         *)
(***************************************************************************)
AlignedFrame(spots, futs) ==
    [i \in 1..Len(spots) |->
        [idx |-> i - 1, date |-> FirstDate + i - 1,
         spot_price |-> spots[i], future_price |-> futs[i]]]

SeqsOf(S, n) == [1..n -> S]

Opens(s, first) == Len(s) = 0 \/ s[1] = first

AlignedInputs ==
    UNION {{AlignedFrame(s, f) :
                s \in {x \in SeqsOf(SpotPrices, n) : Opens(x, FirstPrices.spot_price)},
                f \in {x \in SeqsOf(FuturePrices, n) : Opens(x, FirstPrices.future_price)}}
           : n \in 0..MaxLen}

(***************************************************************************)
(* pandas column arithmetic on cells.                                      *)
(***************************************************************************)
\* A working frame that is the caller's own object.
SameObject(frame) == [shared |-> TRUE]

\* DataFrame.copy(): the working frame is a new object.
Copy(frame) == [shared |-> FALSE]

\* The caller's frame after columns were assigned to the working frame made
\* of it: as it was, unless the two are one object.
CallerFrame(frame, working, assigned) == IF working.shared THEN assigned ELSE frame

\* Series.diff(): the first cell is NaN.
Diff(col) == [i \in 1..Len(col) |-> IF i = 1 THEN NaN ELSE <<col[i] - col[i - 1]>>]

\* scalar * Series
Scale(k, col) == [i \in 1..Len(col) |-> IF col[i] = NaN THEN NaN ELSE <<k * col[i][1]>>]

\* Series + Series
AddCols(a, b) ==
    [i \in 1..Len(a) |-> IF a[i] = NaN \/ b[i] = NaN THEN NaN ELSE <<a[i][1] + b[i][1]>>]

\* The values of the cells of col[1..k] that are not NaN.
RECURSIVE SumCells(_, _)
SumCells(col, k) ==
    IF k = 0 THEN 0
    ELSE (IF col[k] = NaN THEN 0 ELSE col[k][1]) + SumCells(col, k - 1)

\* A running sum that leaves the row's own value out.
CumSumBefore(col) ==
    [i \in 1..Len(col) |-> IF col[i] = NaN THEN NaN ELSE <<SumCells(col, i - 1)>>]

\* Series.cumsum(): NaN cells are skipped and stay NaN.
CumSum(col) == [i \in 1..Len(col) |-> IF col[i] = NaN THEN NaN ELSE <<SumCells(col, i)>>]

CellColumns ==
    {"spot_price_change", "future_price_change", "spot_pnl", "future_pnl", "total_pnl",
     "unhedged_pnl", "total_pnl_cumulative", "unhedged_pnl_cumulative",
     "spot_pnl_cumulative", "future_pnl_cumulative"}

HasNaN(row) == \E c \in CellColumns : row[c] = NaN

\* A row without NaN, its cells read as numbers.
Plain(row) ==
    [c \in DOMAIN row |-> IF c \in CellColumns THEN row[c][1] ELSE row[c]]

\* DataFrame.dropna(): the rows with no NaN, labels kept.
RECURSIVE DropNa(_)
DropNa(frame) ==
    IF frame = <<>> THEN <<>>
    ELSE IF HasNaN(frame[1]) THEN DropNa(Tail(frame))
         ELSE <<Plain(frame[1])>> \o DropNa(Tail(frame))

(***************************************************************************)
(* BacktestEngine.run_backtest                                             *)
(***************************************************************************)
\* future_quantity = spot_quantity * hedge_ratio
FutureQuantity(spot_quantity, hedge_ratio) ==
    (spot_quantity * hedge_ratio.num) \div hedge_ratio.den

SpotPnl(spot_quantity, hedge_direction, spot_price_change) ==
    IF hedge_direction = SHORT_HEDGE
    THEN Scale(spot_quantity, spot_price_change)
    ELSE Scale(-spot_quantity, spot_price_change)

\* The futures leg with the direction left out: always the short futures side.
FuturePnlShortOnly(future_quantity, hedge_direction, future_price_change) ==
    Scale(-future_quantity, future_price_change)

FuturePnl(future_quantity, hedge_direction, future_price_change) ==
    IF hedge_direction = SHORT_HEDGE
    THEN Scale(-future_quantity, future_price_change)
    ELSE Scale(future_quantity, future_price_change)

UnhedgedPnl(spot_quantity, hedge_direction, spot_price_change) ==
    IF hedge_direction = SHORT_HEDGE
    THEN Scale(spot_quantity, spot_price_change)
    ELSE Scale(-spot_quantity, spot_price_change)

\* The frame with its computed columns, before the first row is dropped.
BacktestColumns(aligned_data, hedge_ratio, spot_quantity, hedge_direction) ==
    LET future_quantity == FutureQuantity(spot_quantity, hedge_ratio)
        spot_price_change == Diff(Column(aligned_data, "spot_price"))
        future_price_change == Diff(Column(aligned_data, "future_price"))
        spot_pnl == SpotPnl(spot_quantity, hedge_direction, spot_price_change)
        future_pnl == FuturePnl(future_quantity, hedge_direction, future_price_change)
        total_pnl == AddCols(spot_pnl, future_pnl)
        unhedged_pnl == UnhedgedPnl(spot_quantity, hedge_direction, spot_price_change)
        total_cum == CumSum(total_pnl)
        unhedged_cum == CumSum(unhedged_pnl)
        spot_cum == CumSum(spot_pnl)
        future_cum == CumSum(future_pnl)
    IN  [i \in 1..Len(aligned_data) |->
            [idx |-> aligned_data[i].idx,
             date |-> aligned_data[i].date,
             spot_price |-> aligned_data[i].spot_price,
             future_price |-> aligned_data[i].future_price,
             spot_price_change |-> spot_price_change[i],
             future_price_change |-> future_price_change[i],
             spot_pnl |-> spot_pnl[i],
             future_pnl |-> future_pnl[i],
             total_pnl |-> total_pnl[i],
             unhedged_pnl |-> unhedged_pnl[i],
             total_pnl_cumulative |-> total_cum[i],
             unhedged_pnl_cumulative |-> unhedged_cum[i],
             spot_pnl_cumulative |-> spot_cum[i],
             future_pnl_cumulative |-> future_cum[i]]]

\* The record set of a backtest: the computed frame without its NaN row.
BacktestData(aligned_data, hedge_ratio, spot_quantity, hedge_direction) ==
    DropNa(BacktestColumns(aligned_data, hedge_ratio, spot_quantity, hedge_direction))

\* A drawdown measured from the highest value of the whole series.
MaxDrawdownFromTop(cum) ==
    MinOf({cum[k] - MaxOf({cum[j] : j \in 1..Len(cum)}) : k \in 1..Len(cum)})

\* cumulative_series - cumulative_series.expanding().max(), its minimum.
MaxDrawdown(cum) ==
    MinOf({cum[k] - MaxOf({cum[j] : j \in 1..k}) : k \in 1..Len(cum)})

\* n(n-1) times the sample variance of col: Series.var() is this over n(n-1),
\* and NaN for fewer than two values.
VarianceTimes(col) ==
    Len(col) * SumSeq([i \in 1..Len(col) |-> col[i] * col[i]]) - SumSeq(col) * SumSeq(col)

Variance(col) ==
    IF Len(col) < 2 THEN NaN ELSE <<VarianceTimes(col), Len(col) * (Len(col) - 1)>>

Mean(col) == <<SumSeq(col), Len(col)>>

CountPositive(col) == Cardinality({i \in 1..Len(col) : col[i] > 0})

\* volatility > 0, which NaN is not
VolatilityPositive(variance) == variance # NaN /\ variance[1] > 0

\* The quotient taken whatever the volatility is.
SharpeRatioUnguarded(col) == [mean |-> Mean(col), variance |-> Variance(col)]

\* mean / volatility when the volatility is positive, else 0; the quotient is
\* kept as the pair of the mean and the variance it is taken from.
SharpeRatio(col) ==
    IF VolatilityPositive(Variance(col))
    THEN [mean |-> Mean(col), variance |-> Variance(col)]
    ELSE [zero |-> TRUE]

\* _calculate_performance_metrics, for a record set with at least one row.
PerformanceMetrics(data, spot_quantity, future_quantity) ==
    [total_days |-> Len(data),
     total_hedged_pnl |-> SumSeq(Column(data, "total_pnl")),
     total_unhedged_pnl |-> SumSeq(Column(data, "unhedged_pnl")),
     total_spot_pnl |-> SumSeq(Column(data, "spot_pnl")),
     total_future_pnl |-> SumSeq(Column(data, "future_pnl")),
     avg_daily_hedged_pnl |-> Mean(Column(data, "total_pnl")),
     avg_daily_unhedged_pnl |-> Mean(Column(data, "unhedged_pnl")),
     profitable_days_hedged |-> CountPositive(Column(data, "total_pnl")),
     profitable_days_unhedged |-> CountPositive(Column(data, "unhedged_pnl")),
     hedged_variance |-> Variance(Column(data, "total_pnl")),
     unhedged_variance |-> Variance(Column(data, "unhedged_pnl")),
     max_drawdown_hedged |-> MaxDrawdown(Column(data, "total_pnl_cumulative")),
     max_drawdown_unhedged |-> MaxDrawdown(Column(data, "unhedged_pnl_cumulative")),
     sharpe_ratio_hedged |-> SharpeRatio(Column(data, "total_pnl")),
     sharpe_ratio_unhedged |-> SharpeRatio(Column(data, "unhedged_pnl")),
     max_daily_gain_hedged |-> MaxOf(Range(Column(data, "total_pnl"))),
     max_daily_loss_hedged |-> MinOf(Range(Column(data, "total_pnl"))),
     max_daily_gain_unhedged |-> MaxOf(Range(Column(data, "unhedged_pnl"))),
     max_daily_loss_unhedged |-> MinOf(Range(Column(data, "unhedged_pnl"))),
     start_date |-> MinOf(Range(Column(data, "date"))),
     end_date |-> MaxOf(Range(Column(data, "date")))]

HedgeParameters(hedge_ratio, spot_quantity, hedge_direction, future_contract_size) ==
    [hedge_ratio |-> hedge_ratio,
     spot_quantity |-> spot_quantity,
     future_quantity |-> FutureQuantity(spot_quantity, hedge_ratio),
     hedge_direction |-> hedge_direction,
     future_contract_size |-> future_contract_size]

\* A run_backtest without its check of an empty series.
RunBacktestErrorUnchecked(aligned_data, hedge_ratio, spot_quantity, hedge_direction) ==
    IF BacktestData(aligned_data, hedge_ratio, spot_quantity, hedge_direction) = <<>>
    THEN ErrNoRows
    ELSE NoError

\* The exception run_backtest raises on these arguments, NoError when it returns.
RunBacktestError(aligned_data, hedge_ratio, spot_quantity, hedge_direction) ==
    IF aligned_data = <<>> THEN ErrEmptyData
    ELSE IF BacktestData(aligned_data, hedge_ratio, spot_quantity, hedge_direction) = <<>>
         THEN ErrNoRows
         ELSE NoError

\* The dict run_backtest returns.
BacktestResult(aligned_data, hedge_ratio, spot_quantity, hedge_direction) ==
    LET data == BacktestData(aligned_data, hedge_ratio, spot_quantity, hedge_direction)
    IN  [data |-> data,
         performance_metrics |->
            PerformanceMetrics(data, spot_quantity,
                               FutureQuantity(spot_quantity, hedge_ratio)),
         hedge_parameters |->
            HedgeParameters(hedge_ratio, spot_quantity, hedge_direction, 1)]

\* One call of run_backtest: its arguments, what it raises, what it returns.
RunBacktestCall(aligned_data, hedge_ratio, spot_quantity, hedge_direction) ==
    LET err == RunBacktestError(aligned_data, hedge_ratio, spot_quantity, hedge_direction)
    IN  [args |-> [aligned_data |-> aligned_data, hedge_ratio |-> hedge_ratio,
                   spot_quantity |-> spot_quantity, hedge_direction |-> hedge_direction],
         raised |-> err,
         ret |-> IF err # NoError THEN None
                 ELSE BacktestResult(aligned_data, hedge_ratio, spot_quantity,
                                     hedge_direction),
         passed |->
            [aligned_data |->
                IF aligned_data = <<>> THEN aligned_data
                ELSE CallerFrame(aligned_data, Copy(aligned_data),
                                 BacktestColumns(aligned_data, hedge_ratio, spot_quantity,
                                                 hedge_direction))]]

\* An engine that keeps the first result it stored.
StoreBacktestOnce(cached, result) == IF cached = None THEN result ELSE cached

\* self.backtest_results after a run_backtest that returned result.
StoreBacktest(cached, result) == result

\* An engine that drops its cached result when a run raises.
BacktestResultsReset(cached, call) ==
    IF call.raised # NoError THEN None ELSE StoreBacktest(cached, call.ret)

\* self.backtest_results after the call: the assignment is the last statement
\* before the return, after every statement that can raise.
BacktestResultsAfter(cached, call) ==
    IF call.raised # NoError THEN cached ELSE StoreBacktest(cached, call.ret)

\* The effect of the call on the engine; a call that raises stores nothing.
run_backtest(call) ==
    /\ op' = "run_backtest"
    /\ args' = call.args
    /\ raised' = call.raised
    /\ ret' = call.ret
    /\ backtest_results' = BacktestResultsAfter(backtest_results, call)
    /\ last_run' = IF call.raised # NoError THEN last_run ELSE call
    /\ replaced' = (replaced \/ (call.raised = NoError /\ last_run # None
                                  /\ last_run.ret # call.ret))
    /\ passed' = call.passed
    /\ UNCHANGED <<stress_periods, stress_results>>

(***************************************************************************)
(* BacktestEngine.get_period_analysis                                      *)
(***************************************************************************)
\* A date filter that leaves the end date out.
DateSliceOpenEnd(data, start_date, end_date) ==
    SelectSeq(data, LAMBDA row : row.date >= start_date /\ row.date < end_date)

\* data[(data['date'] >= start_date) & (data['date'] <= end_date)]
DateSlice(data, start_date, end_date) ==
    SelectSeq(data, LAMBDA row : row.date >= start_date /\ row.date <= end_date)

PeriodMetrics(period_data) ==
    [days |-> Len(period_data),
     total_hedged_pnl |-> SumSeq(Column(period_data, "total_pnl")),
     total_unhedged_pnl |-> SumSeq(Column(period_data, "unhedged_pnl")),
     avg_daily_hedged_pnl |-> Mean(Column(period_data, "total_pnl")),
     avg_daily_unhedged_pnl |-> Mean(Column(period_data, "unhedged_pnl")),
     hedged_variance |-> Variance(Column(period_data, "total_pnl")),
     unhedged_variance |-> Variance(Column(period_data, "unhedged_pnl")),
     max_daily_loss_hedged |-> MinOf(Range(Column(period_data, "total_pnl"))),
     max_daily_loss_unhedged |-> MinOf(Range(Column(period_data, "unhedged_pnl"))),
     profitable_days_hedged |-> CountPositive(Column(period_data, "total_pnl")),
     profitable_days_unhedged |-> CountPositive(Column(period_data, "unhedged_pnl")),
     hedge_advantage |-> SumSeq(Column(period_data, "total_pnl"))
                         - SumSeq(Column(period_data, "unhedged_pnl"))]

\* A state check that reports the missing backtest as an empty period.
StateCheckAsEmpty(cached) == IF cached = None THEN ErrNoPeriodData ELSE NoError

\* The exception a query of the cached backtest raises when there is none.
StateCheck(cached) == IF cached = None THEN ErrNoBacktest ELSE NoError

PeriodAnalysisError(cached, start_date, end_date) ==
    IF StateCheck(cached) # NoError THEN StateCheck(cached)
    ELSE IF DateSlice(cached.data, start_date, end_date) = <<>> THEN ErrNoPeriodData
         ELSE NoError

PeriodAnalysis(cached, start_date, end_date) ==
    LET period_data == DateSlice(cached.data, start_date, end_date)
    IN  [period_data |-> period_data, period_metrics |-> PeriodMetrics(period_data)]

get_period_analysis(start_date, end_date) ==
    LET err == PeriodAnalysisError(backtest_results, start_date, end_date)
    IN  /\ op' = "get_period_analysis"
        /\ args' = [start_date |-> start_date, end_date |-> end_date]
        /\ raised' = err
        /\ ret' = IF err # NoError THEN None
                  ELSE PeriodAnalysis(backtest_results, start_date, end_date)
        /\ passed' = EmptyDict
        /\ UNCHANGED <<backtest_results, stress_periods, stress_results, last_run, replaced>>

(***************************************************************************)
(* BacktestEngine.calculate_rolling_metrics                                *)
(***************************************************************************)
\* The cells of col[i-w+1..i], the trailing window of row i.
Window(col, i, w) == [k \in 1..w |-> col[i - w + k]]

\* Series.rolling(window).std(), as the variance it is the root of: NaN on the
\* leading window-1 rows, and NaN for a window of one value.
RollingVariance(col, w) ==
    [i \in 1..Len(col) |-> IF i < w THEN NaN ELSE Variance(Window(col, i, w))]

\* Series.rolling(window).mean()
RollingMean(col, w) ==
    [i \in 1..Len(col) |-> IF i < w THEN NaN ELSE Mean(Window(col, i, w))]

RollingMetrics(cached, window_size) ==
    LET data == cached.data
        vh == RollingVariance(Column(data, "total_pnl"), window_size)
        vu == RollingVariance(Column(data, "unhedged_pnl"), window_size)
        mh == RollingMean(Column(data, "total_pnl"), window_size)
        mu == RollingMean(Column(data, "unhedged_pnl"), window_size)
    IN  [rows |->
            [i \in 1..Len(data) |->
                [idx |-> data[i].idx,
                 date |-> data[i].date,
                 rolling_variance_hedged |-> vh[i],
                 rolling_variance_unhedged |-> vu[i],
                 rolling_mean_hedged |-> mh[i],
                 rolling_mean_unhedged |-> mu[i]]]]

calculate_rolling_metrics(window_size) ==
    LET err == StateCheck(backtest_results)
    IN  /\ op' = "calculate_rolling_metrics"
        /\ args' = [window_size |-> window_size]
        /\ raised' = err
        /\ ret' = IF err # NoError THEN None
                  ELSE RollingMetrics(backtest_results, window_size)
        /\ passed' = EmptyDict
        /\ UNCHANGED <<backtest_results, stress_periods, stress_results, last_run, replaced>>

(***************************************************************************)
(* BacktestEngine.generate_performance_summary                             *)
(***************************************************************************)
\* f"{x:.2f}" of an integer x: sign, whole part, and the digits after the point.
Fixed(x, places) == [negative |-> x < 0, whole |-> Abs(x), digits |-> [k \in 1..places |-> 0]]

\* f"{num/den:.4f}" of a ratio with den in {1, 2}: the quotient to four places.
FixedRatio(r) ==
    [negative |-> r.num < 0,
     whole |-> Abs(r.num) \div r.den,
     digits |-> [k \in 1..4 |->
                    IF k = 1 THEN ((Abs(r.num) % r.den) * 10) \div r.den ELSE 0]]

PerformanceSummary(cached) ==
    LET metrics == cached.performance_metrics
        params == cached.hedge_parameters
    IN  [strategy |->
            [direction |-> IF params.hedge_direction = SHORT_HEDGE
                           THEN "inventory (short hedge)" ELSE "purchase (long hedge)",
             hedge_ratio |-> FixedRatio(params.hedge_ratio),
             spot_quantity |-> params.spot_quantity,
             future_quantity |-> Fixed(params.future_quantity, 4),
             period |-> <<metrics.start_date, metrics.end_date>>,
             total_days |-> metrics.total_days],
         pnl |->
            [total_hedged_pnl |-> Fixed(metrics.total_hedged_pnl, 2),
             total_unhedged_pnl |-> Fixed(metrics.total_unhedged_pnl, 2),
             hedge_advantage |->
                Fixed(metrics.total_hedged_pnl - metrics.total_unhedged_pnl, 2)],
         risk |->
            [max_drawdown_hedged |-> Fixed(metrics.max_drawdown_hedged, 2),
             max_drawdown_unhedged |-> Fixed(metrics.max_drawdown_unhedged, 2)]]

generate_performance_summary ==
    LET err == StateCheck(backtest_results)
    IN  /\ op' = "generate_performance_summary"
        /\ args' = EmptyDict
        /\ raised' = err
        /\ ret' = IF err # NoError THEN None ELSE PerformanceSummary(backtest_results)
        /\ passed' = EmptyDict
        /\ UNCHANGED <<backtest_results, stress_periods, stress_results, last_run, replaced>>

(***************************************************************************)
(* StressTestAnalyzer.identify_stress_periods                              *)
(***************************************************************************)
\* The messages of the exceptions the analyzer raises.
ErrEmptyStressData == "ValueError: data is empty, cannot identify stress periods"
ErrInvalidBacktest == "ValueError: backtest result is invalid"
ErrNoCustomData == "ValueError: no data in the custom period"
\* _create_stress_period_summary reads price_change_threshold, a parameter of
\* identify_stress_periods that is bound neither in it nor in the module.
ErrNameThreshold == "NameError: name 'price_change_threshold' is not defined"
\* _calculate_stress_summary reads p['days'] of the result of an empty slice.
ErrKeyDays == "KeyError: 'days'"

\* Series.pct_change() * 100: NaN in the first cell, then the fraction
\* 100 * (price - previous) / previous.
PctChange(col) ==
    [i \in 1..Len(col) |->
        IF i = 1 THEN NaN ELSE <<100 * (col[i] - col[i - 1]), col[i - 1]>>]

\* np.abs(pct) > price_change_threshold, which NaN is not; prices are positive.
IsExtreme(pct, price_change_threshold) ==
    pct # NaN /\ Abs(pct[1]) > price_change_threshold * pct[2]

\* data.loc[first:last]: the rows labelled first..last, both included.
LocSlice(data, first, last) ==
    SelectSeq(data, LAMBDA row : row.idx >= first /\ row.idx <= last)

\* The test of a run that ended: it is kept when it is long enough.
KeepRun(found, period_start, period_end, min_consecutive_days) ==
    IF period_end - period_start + 1 >= min_consecutive_days
    THEN Append(found, <<period_start, period_end>>)
    ELSE found

\* The label given to the end of a run that is still open after the last row.
FinalPeriodEnd(data) == Len(data) - 1

\* The loop over the rows from row i on, and the block after it: the label
\* ranges <<period_start, period_end>> of the runs that are kept, in order.
RECURSIVE ScanRows(_, _, _, _, _, _, _)
ScanRows(data, extreme, min_consecutive_days, i, in_stress_period, period_start, found) ==
    IF i > Len(data)
    THEN IF in_stress_period
         THEN KeepRun(found, period_start, FinalPeriodEnd(data), min_consecutive_days)
         ELSE found
    ELSE IF extreme[i] /\ ~in_stress_period
         THEN ScanRows(data, extreme, min_consecutive_days, i + 1, TRUE, data[i].idx, found)
         ELSE IF ~extreme[i] /\ in_stress_period
              THEN ScanRows(data, extreme, min_consecutive_days, i + 1, FALSE, period_start,
                            KeepRun(found, period_start, data[i].idx - 1,
                                    min_consecutive_days))
              ELSE ScanRows(data, extreme, min_consecutive_days, i + 1, in_stress_period,
                            period_start, found)

ExtremeDays(data, price_change_threshold) ==
    LET pct == PctChange(Column(data, "spot_price"))
    IN  [i \in 1..Len(data) |-> IsExtreme(pct[i], price_change_threshold)]

\* The frame with the two columns the detection assigns to it.
WithExtremes(data, price_change_threshold) ==
    LET pct == PctChange(Column(data, "spot_price"))
    IN  [i \in 1..Len(data) |->
            [c \in DOMAIN data[i] \cup {"spot_price_change_pct", "is_extreme"} |->
                IF c = "spot_price_change_pct" THEN pct[i]
                ELSE IF c = "is_extreme" THEN IsExtreme(pct[i], price_change_threshold)
                ELSE data[i][c]]]

KeptRuns(data, price_change_threshold, min_consecutive_days) ==
    ScanRows(data, ExtremeDays(data, price_change_threshold), min_consecutive_days,
             1, FALSE, 0, <<>>)

\* The summary dict of _create_stress_period_summary up to its stress_type.
StressPeriodFields(period_data, start_idx, end_idx) ==
    LET first == period_data[1]
        last == period_data[Len(period_data)]
    IN  [start_date |-> MinOf(Range(Column(period_data, "date"))),
         end_date |-> MaxOf(Range(Column(period_data, "date"))),
         duration_days |-> Len(period_data),
         start_index |-> start_idx,
         end_index |-> end_idx,
         spot_price_change |-> last.spot_price - first.spot_price,
         spot_price_change_pct |->
            <<100 * (last.spot_price - first.spot_price), first.spot_price>>,
         future_price_change |-> last.future_price - first.future_price,
         future_price_change_pct |->
            <<100 * (last.future_price - first.future_price), first.future_price>>]

\* _create_stress_period_summary: building the summary ends at the first read
\* of price_change_threshold, so no call of it returns.
CreateStressPeriodSummary(period_data, start_idx, end_idx) ==
    [raised |-> ErrNameThreshold, ret |-> None]

\* The summaries of the kept runs, each the outcome of its call.
Summaries(data, runs) ==
    [k \in 1..Len(runs) |->
        CreateStressPeriodSummary(LocSlice(data, runs[k][1], runs[k][2]),
                                  runs[k][1], runs[k][2])]

\* The first exception among the outcomes, NoError when there is none.
RECURSIVE FirstError(_)
FirstError(outcomes) ==
    IF outcomes = <<>> THEN NoError
    ELSE IF outcomes[1].raised # NoError THEN outcomes[1].raised
         ELSE FirstError(Tail(outcomes))

\* One call of identify_stress_periods: what it raises, the list it returns.
IdentifyOutcome(aligned_data, price_change_threshold, min_consecutive_days) ==
    IF aligned_data = <<>> THEN [raised |-> ErrEmptyStressData, ret |-> None]
    ELSE LET outcomes ==
                Summaries(aligned_data,
                          KeptRuns(aligned_data, price_change_threshold,
                                   min_consecutive_days))
         IN  IF FirstError(outcomes) # NoError
             THEN [raised |-> FirstError(outcomes), ret |-> None]
             ELSE [raised |-> NoError,
                   ret |-> [periods |-> [k \in 1..Len(outcomes) |-> outcomes[k].ret]]]

IdentifyCall(aligned_data, price_change_threshold, min_consecutive_days) ==
    LET out == IdentifyOutcome(aligned_data, price_change_threshold, min_consecutive_days)
    IN  [args |-> [aligned_data |-> aligned_data,
                   price_change_threshold |-> price_change_threshold,
                   min_consecutive_days |-> min_consecutive_days],
         raised |-> out.raised,
         ret |-> out.ret,
         passed |->
            [aligned_data |->
                IF aligned_data = <<>> THEN aligned_data
                ELSE CallerFrame(aligned_data, Copy(aligned_data),
                                 WithExtremes(aligned_data, price_change_threshold))]]

\* The effect of the call on the analyzer: the list is stored when it returns.
identify_stress_periods(call) ==
    /\ op' = "identify_stress_periods"
    /\ args' = call.args
    /\ raised' = call.raised
    /\ ret' = call.ret
    /\ stress_periods' = IF call.raised # NoError THEN stress_periods ELSE call.ret.periods
    /\ passed' = call.passed
    /\ UNCHANGED <<backtest_results, stress_results, last_run, replaced>>

(***************************************************************************)
(* StressTestAnalyzer.run_stress_test                                      *)
(***************************************************************************)
Min(a, b) == IF a <= b THEN a ELSE b

\* data.iloc[start_idx:end_idx+1]: the rows at the positions start_idx..end_idx
\* counted from 0, as far as the frame has them.
IlocSlice(data, start_idx, end_idx) ==
    SubSeq(data, start_idx + 1, Min(end_idx + 1, Len(data)))

\* _calculate_period_performance with the period_info its caller adds.  The
\* empty dict of an empty slice gets the period_info alone.  period_rows is no
\* key of the dict: it names the dates of the rows the figures are taken over.
PeriodResult(period_data, period_info) ==
    IF period_data = <<>> THEN [period_info |-> period_info]
    ELSE [days |-> Len(period_data),
          total_hedged_pnl |-> SumSeq(Column(period_data, "total_pnl")),
          total_unhedged_pnl |-> SumSeq(Column(period_data, "unhedged_pnl")),
          total_spot_pnl |-> SumSeq(Column(period_data, "spot_pnl")),
          total_future_pnl |-> SumSeq(Column(period_data, "future_pnl")),
          avg_daily_hedged_pnl |-> Mean(Column(period_data, "total_pnl")),
          avg_daily_unhedged_pnl |-> Mean(Column(period_data, "unhedged_pnl")),
          hedged_variance |-> Variance(Column(period_data, "total_pnl")),
          unhedged_variance |-> Variance(Column(period_data, "unhedged_pnl")),
          max_daily_loss_hedged |-> MinOf(Range(Column(period_data, "total_pnl"))),
          max_daily_loss_unhedged |-> MinOf(Range(Column(period_data, "unhedged_pnl"))),
          profitable_days_hedged |-> CountPositive(Column(period_data, "total_pnl")),
          profitable_days_unhedged |-> CountPositive(Column(period_data, "unhedged_pnl")),
          hedge_advantage |-> SumSeq(Column(period_data, "total_pnl"))
                              - SumSeq(Column(period_data, "unhedged_pnl")),
          max_drawdown_hedged |->
              MaxDrawdown(Column(period_data, "total_pnl_cumulative")),
          max_drawdown_unhedged |->
              MaxDrawdown(Column(period_data, "unhedged_pnl_cumulative")),
          period_rows |-> Column(period_data, "date"),
          period_info |-> period_info]

\* _test_custom_period: the rows within the inclusive date bounds.
TestCustomPeriod(data, custom_period) ==
    LET period_data == DateSlice(data, custom_period.start_date, custom_period.end_date)
    IN  IF period_data = <<>> THEN [raised |-> ErrNoCustomData, ret |-> None]
        ELSE [raised |-> NoError,
              ret |-> [stress_periods |->
                          <<PeriodResult(period_data,
                                         [start_date |-> custom_period.start_date,
                                          end_date |-> custom_period.end_date,
                                          duration_days |-> Len(period_data),
                                          stress_type |-> "custom"])>>,
                       test_type |-> "custom_period"]]

\* _test_specific_periods: one result for each period, in the order given.
TestSpecificPeriods(data, periods) ==
    [raised |-> NoError,
     ret |-> [stress_periods |->
                 [k \in 1..Len(periods) |->
                     PeriodResult(IlocSlice(data, periods[k].start_index,
                                            periods[k].end_index),
                                  periods[k])],
              test_type |-> "identified_periods"]]

\* normal_data.drop(normal_data.index[start_idx:end_idx+1])
DropPositions(frame, start_idx, end_idx) ==
    SubSeq(frame, 1, Min(start_idx, Len(frame))) \o SubSeq(frame, end_idx + 2, Len(frame))

\* The loop of _get_normal_period_analysis: each period's positions are dropped
\* from what the periods before it left.
RECURSIVE DropPeriods(_, _)
DropPeriods(normal_data, periods) ==
    IF periods = <<>> THEN normal_data
    ELSE DropPeriods(DropPositions(normal_data, periods[1].start_index,
                                   periods[1].end_index),
                     Tail(periods))

\* The periods whose rows _get_normal_period_analysis leaves out: the
\* analyzer's own list.
NormalPeriodsExcluded(own_periods, tested_periods) == own_periods

\* The rows of the normal period: all of them when none is left.
NormalData(data, excluded) ==
    LET normal_data == IF excluded # <<>> THEN DropPeriods(data, excluded) ELSE data
    IN  IF normal_data = <<>> THEN data ELSE normal_data

NormalPeriodAnalysis(data, excluded) ==
    PeriodResult(NormalData(data, excluded),
                 [duration_days |-> Len(NormalData(data, excluded)),
                  stress_type |-> "normal"])

\* _calculate_stress_summary: the totals over the period results.
StressSummary(results, normal_result) ==
    IF results = <<>> THEN [raised |-> NoError, ret |-> EmptyDict]
    ELSE IF \E k \in 1..Len(results) : "days" \notin DOMAIN results[k]
         THEN [raised |-> ErrKeyDays, ret |-> None]
         ELSE [raised |-> NoError,
               ret |-> [total_stress_periods |-> Len(results),
                        total_stress_days |-> SumSeq(Column(results, "days")),
                        total_stress_pnl_hedged |->
                            SumSeq(Column(results, "total_hedged_pnl")),
                        total_stress_pnl_unhedged |->
                            SumSeq(Column(results, "total_unhedged_pnl")),
                        max_single_loss_hedged |->
                            MinOf(Range(Column(results, "max_daily_loss_hedged"))),
                        max_single_loss_unhedged |->
                            MinOf(Range(Column(results, "max_daily_loss_unhedged")))]]

\* bool(x) of an optional argument: None and the empty list are false.
Truthy(arg) == arg # None /\ (("list" \in DOMAIN arg) => arg.list # <<>>)

\* The detection run_stress_test starts on its data, with the defaults of
\* identify_stress_periods.
DefaultThreshold == 5
DefaultMinDays == 3
AutoIdentify(data) == IdentifyOutcome(data, DefaultThreshold, DefaultMinDays)

\* The periods branch of run_stress_test: which list is tested, what the
\* analyzer's own list is afterwards, and the exception of a detection.
\* own is self.stress_periods when the call starts.
ChoosePeriods(own, data, stress_periods_arg) ==
    IF Truthy(stress_periods_arg)
    THEN [raised |-> NoError, tested |-> stress_periods_arg.list, own |-> own]
    ELSE IF own = <<>>
         THEN LET found == AutoIdentify(data)
              IN  IF found.raised # NoError
                  THEN [raised |-> found.raised, tested |-> <<>>, own |-> own]
                  ELSE [raised |-> NoError, tested |-> found.ret.periods,
                        own |-> found.ret.periods]
         ELSE [raised |-> NoError, tested |-> own, own |-> own]

\* A branch that looks at the supplied periods before the custom range.
TestPeriodsListFirst(own, data, stress_periods_arg, custom_period) ==
    IF Truthy(stress_periods_arg)
    THEN [raised |-> NoError,
          ret |-> TestSpecificPeriods(data, stress_periods_arg.list).ret, own |-> own]
    ELSE IF Truthy(custom_period)
         THEN LET t == TestCustomPeriod(data, custom_period)
              IN  [raised |-> t.raised, ret |-> t.ret, own |-> own]
         ELSE LET c == ChoosePeriods(own, data, stress_periods_arg)
              IN  IF c.raised # NoError
                  THEN [raised |-> c.raised, ret |-> None, own |-> c.own]
                  ELSE [raised |-> NoError,
                        ret |-> TestSpecificPeriods(data, c.tested).ret, own |-> c.own]

\* The part of run_stress_test after hedge_params is read: the tested periods.
\* [raised, ret, own]: own is self.stress_periods when the branch is left.
TestPeriods(own, data, stress_periods_arg, custom_period) ==
    IF Truthy(custom_period)
    THEN LET t == TestCustomPeriod(data, custom_period)
         IN  [raised |-> t.raised, ret |-> t.ret, own |-> own]
    ELSE LET c == ChoosePeriods(own, data, stress_periods_arg)
         IN  IF c.raised # NoError
             THEN [raised |-> c.raised, ret |-> None, own |-> c.own]
             ELSE [raised |-> NoError, ret |-> TestSpecificPeriods(data, c.tested).ret,
                   own |-> c.own]

\* One call of run_stress_test on an analyzer whose stress_periods is own:
\* [raised, ret, own, stored]: what it raises, the dict it returns, and
\* self.stress_periods and whether self.stress_results is set when it ends.
RunStressTestOutcome(own, backtest, stress_periods_arg, custom_period) ==
    IF backtest = None \/ "data" \notin DOMAIN backtest
    THEN [raised |-> ErrInvalidBacktest, ret |-> None, own |-> own]
    ELSE LET data == backtest.data
             t == TestPeriods(own, data, stress_periods_arg, custom_period)
         IN  IF t.raised # NoError
             THEN [raised |-> t.raised, ret |-> None, own |-> t.own]
             ELSE LET normal ==
                         NormalPeriodAnalysis(
                             data,
                             NormalPeriodsExcluded(
                                 t.own,
                                 [k \in 1..Len(t.ret.stress_periods) |->
                                     t.ret.stress_periods[k].period_info]))
                      summary == StressSummary(t.ret.stress_periods, normal)
                  IN  IF summary.raised # NoError
                      THEN [raised |-> summary.raised, ret |-> None, own |-> t.own]
                      ELSE [raised |-> NoError,
                            ret |-> [stress_periods |-> t.ret.stress_periods,
                                     test_type |-> t.ret.test_type,
                                     normal_period_comparison |-> normal,
                                     summary |-> summary.ret],
                            own |-> t.own]

\* The call as it goes on an analyzer whose stress_periods is own.
RunStressTestCall(own, backtest, stress_periods_arg, custom_period) ==
    [own |-> own,
     args |-> [backtest_results |-> backtest, stress_periods |-> stress_periods_arg,
               custom_period |-> custom_period],
     out |-> RunStressTestOutcome(own, backtest, stress_periods_arg, custom_period),
     passed |-> [backtest_results |-> backtest, stress_periods |-> stress_periods_arg]]

\* self.stress_results after a run_stress_test that returned result.
StoreStressResults(stored, result) == result

\* An analyzer that forgets its last result when a call raises.
StressResultsCleared(stored, out) ==
    IF out.raised # NoError THEN EmptyDict ELSE StoreStressResults(stored, out.ret)

\* self.stress_results when the call ends: assigned only when it returns.
StressResultsAfter(stored, out) ==
    IF out.raised # NoError THEN stored ELSE StoreStressResults(stored, out.ret)

\* The effect of the call on the analyzer.
run_stress_test(call) ==
    /\ call.own = stress_periods
    /\ op' = "run_stress_test"
    /\ args' = call.args
    /\ raised' = call.out.raised
    /\ ret' = call.out.ret
    /\ stress_periods' = call.out.own
    /\ stress_results' = StressResultsAfter(stress_results, call.out)
    /\ passed' = call.passed
    /\ UNCHANGED <<backtest_results, last_run, replaced>>

(***************************************************************************)
(* The engine's specification: any sequence of calls on one engine.        *)
(***************************************************************************)
Dates == FirstDate..(FirstDate + MaxLen)
WindowSizes == 1..2

Init ==
    /\ backtest_results = None
    /\ stress_periods = <<>>
    /\ stress_results = EmptyDict
    /\ op = "init"
    /\ args = EmptyDict
    /\ raised = NoError
    /\ ret = None
    /\ last_run = None
    /\ replaced = FALSE
    /\ calls = 0
    /\ last_calculation = None
    /\ passed = EmptyDict

\* The calls of run_backtest on the bounded inputs, each evaluated once.
RunBacktestCalls ==
    {RunBacktestCall(aligned_data, hedge_ratio, spot_quantity, hedge_direction) :
        aligned_data \in AlignedInputs, hedge_ratio \in HedgeRatios,
        spot_quantity \in SpotQuantities, hedge_direction \in HedgeDirection}

RunBacktest ==
    /\ \E call \in RunBacktestCalls : run_backtest(call)
    /\ UNCHANGED <<calls, last_calculation>>

GetPeriodAnalysis ==
    /\ \E start_date \in Dates, end_date \in Dates :
            get_period_analysis(start_date, end_date)
    /\ UNCHANGED <<calls, last_calculation>>

CalculateRollingMetrics ==
    /\ \E window_size \in WindowSizes : calculate_rolling_metrics(window_size)
    /\ UNCHANGED <<calls, last_calculation>>

GeneratePerformanceSummary ==
    /\ generate_performance_summary
    /\ UNCHANGED <<calls, last_calculation>>

Next ==
    \/ RunBacktest
    \/ GetPeriodAnalysis
    \/ CalculateRollingMetrics
    \/ GeneratePerformanceSummary

Spec == Init /\ [][Next]_vars

(***************************************************************************)
(* The detector's specification: any sequence of identify_stress_periods   *)
(* calls on one analyzer, on aligned series and on backtest record sets.   *)
(***************************************************************************)
MaxDetectLen == 7

\* A day's move is nil or beyond the threshold: 100 -> 110 is +10%, 110 -> 100
\* is -9.09%.
StressSpotPrices == {100, 110}
\* The futures price of a day follows its spot price.
StressFuture(spot_price) == IF spot_price = 100 THEN 50 ELSE 54
HalfRatio == [num |-> 1, den |-> 2]
Thresholds == {DefaultThreshold}
MinDaysChoices == {3, 6}

\* The aligned series of n days.
StressSeries(n) ==
    {AlignedFrame(s, [i \in 1..n |-> StressFuture(s[i])]) :
        s \in {x \in SeqsOf(StressSpotPrices, n) : Opens(x, FirstPrices.spot_price)}}

\* The record set of the backtest of an aligned series: its rows are labelled
\* from 1, the first row being dropped.
RecordsOf(aligned_data) == BacktestData(aligned_data, HalfRatio, 10, SHORT_HEDGE)

DetectFrames ==
    UNION {StressSeries(n) \cup {RecordsOf(a) : a \in StressSeries(n)} : n \in 0..MaxDetectLen}

IdentifyCalls ==
    {IdentifyCall(aligned_data, price_change_threshold, min_consecutive_days) :
        aligned_data \in DetectFrames, price_change_threshold \in Thresholds,
        min_consecutive_days \in MinDaysChoices}

Identify ==
    /\ \E call \in IdentifyCalls : identify_stress_periods(call)
    /\ UNCHANGED <<calls, last_calculation>>

NextDetect == Identify

SpecDetect == Init /\ [][NextDetect]_vars

(***************************************************************************)
(* The stress test's specification: identify_stress_periods and            *)
(* run_stress_test on one analyzer, with periods supplied, a custom range, *)
(* both or neither.                                                        *)
(***************************************************************************)
MaxStressLen == 3
MaxCalls == 1

\* A dict that is no backtest result: it has no 'data'.
NoData == [hedge_parameters |-> HedgeParameters(HalfRatio, 10, SHORT_HEDGE, 1)]

BacktestsOf(series) == {BacktestResult(a, HalfRatio, 10, SHORT_HEDGE) : a \in series}

StressBacktests == UNION {BacktestsOf(StressSeries(n)) : n \in 2..MaxStressLen}

\* The backtests run_stress_test is left to detect on: long enough for the
\* default three extreme days after the first record, with a day to spare.
AutoSeries == StressSeries(MaxStressLen + 3)
AutoBacktests == BacktestsOf(AutoSeries)

\* A period as a detection on the aligned series describes it: the rows
\* labelled first..last of that series and their dates.
PeriodOf(first, last) ==
    [start_index |-> first, end_index |-> last,
     start_date |-> FirstDate + first, end_date |-> FirstDate + last,
     duration_days |-> last - first + 1]

StressIndexes == 0..(MaxStressLen - 1)

IndexRanges == {r \in StressIndexes \X StressIndexes : r[1] <= r[2]}

SuppliedPeriods == {PeriodOf(r[1], r[2]) : r \in IndexRanges}

Disjoint(p, q) == p.end_index < q.start_index \/ q.end_index < p.start_index

\* The lists a caller supplies: none, one or two periods, in either order.
PeriodLists ==
    {<<>>} \cup {<<p>> : p \in SuppliedPeriods}
    \cup {<<l[1], l[2]>> : l \in {x \in SuppliedPeriods \X SuppliedPeriods :
                                     Disjoint(x[1], x[2])}}

PeriodsArgs == {None} \cup {[list |-> l] : l \in PeriodLists}

StressDates == FirstDate..(FirstDate + MaxStressLen - 1)

CustomPeriods == {[start_date |-> s, end_date |-> e] : s \in StressDates, e \in StressDates}

StressArgs ==
    {<<None, None, None>>, <<NoData, None, None>>}
    \cup {<<b, p, None>> : b \in StressBacktests, p \in PeriodsArgs}
    \cup {<<b, p, c>> : b \in StressBacktests,
                        p \in {None, [list |-> <<PeriodOf(0, 0)>>]},
                        c \in CustomPeriods}
    \cup {<<b, p, None>> : b \in AutoBacktests, p \in {None, [list |-> <<>>]}}

\* The detections made on the analyzer before a stress test: on the aligned
\* series of the backtests and on their record sets.
StressIdentifyCalls ==
    {IdentifyCall(aligned_data, DefaultThreshold, DefaultMinDays) :
        aligned_data \in AutoSeries
                         \cup {b.data : b \in StressBacktests \cup AutoBacktests}}

\* The lists self.stress_periods can hold: empty, or what a detection left.
OwnLists ==
    {<<>>}
    \cup {c.ret.periods : c \in {d \in StressIdentifyCalls : d.raised = NoError}}
    \cup {f.ret.periods :
            f \in {g \in {AutoIdentify(b.data) : b \in StressBacktests \cup AutoBacktests} :
                      g.raised = NoError}}

RunStressTestCalls ==
    {RunStressTestCall(own, a[1], a[2], a[3]) : own \in OwnLists, a \in StressArgs}

RunStressTest ==
    /\ calls < MaxCalls
    /\ \E call \in RunStressTestCalls : run_stress_test(call)
    /\ calls' = calls + 1
    /\ UNCHANGED last_calculation

IdentifyStress ==
    /\ calls < MaxCalls
    /\ \E call \in StressIdentifyCalls : identify_stress_periods(call)
    /\ calls' = calls + 1
    /\ UNCHANGED last_calculation

NextStress ==
    \/ RunStressTest
    \/ IdentifyStress

SpecStress == Init /\ [][NextStress]_vars

(***************************************************************************)
(* Properties of the engine, checked under Spec.                           *)
(***************************************************************************)
Queries == {"get_period_analysis", "calculate_rolling_metrics",
            "generate_performance_summary"}

\* The first differences of the record row against the previous day of the
\* aligned series the backtest was given.
DeltaSpot(aligned_data, row) ==
    aligned_data[row.idx + 1].spot_price - aligned_data[row.idx].spot_price
DeltaFuture(aligned_data, row) ==
    aligned_data[row.idx + 1].future_price - aligned_data[row.idx].future_price

\* The direction table for one record; future_pnl is compared after both
\* sides are multiplied by the denominator of the hedge ratio.
FollowsDirectionTable(row, a) ==
    LET q == a.spot_quantity
        h == a.hedge_ratio
        dSpot == DeltaSpot(a.aligned_data, row)
        dFuture == DeltaFuture(a.aligned_data, row)
    IN  IF a.hedge_direction = SHORT_HEDGE
        THEN /\ row.spot_pnl = q * dSpot
             /\ h.den * row.future_pnl = -(q * h.num) * dFuture
             /\ row.unhedged_pnl = q * dSpot
        ELSE /\ row.spot_pnl = -q * dSpot
             /\ h.den * row.future_pnl = (q * h.num) * dFuture
             /\ row.unhedged_pnl = -q * dSpot

\* C1: every record that run_backtest produces follows the direction table:
\* with ShortHedge spot_pnl = q*dSpot, future_pnl = -(q*ratio)*dFuture and
\* unhedged_pnl = q*dSpot; with LongHedge the three signs are reversed; dSpot
\* and dFuture are the first differences against the previous day.
C1_DirectionTable ==
    (op = "run_backtest" /\ raised = NoError) =>
        \A k \in 1..Len(ret.data) : FollowsDirectionTable(ret.data[k], args)

\* The example of C1: ShortHedge, quantity 10, ratio 0.5, a day with dSpot = +5
\* and dFuture = +4 gives 50, -20, total 30, unhedged 50.
C1_Witness ==
    /\ op = "run_backtest" /\ raised = NoError
    /\ args.hedge_direction = SHORT_HEDGE
    /\ args.spot_quantity = 10
    /\ args.hedge_ratio = [num |-> 1, den |-> 2]
    /\ \E k \in 1..Len(ret.data) :
          /\ ret.data[k].spot_price_change = 5
          /\ ret.data[k].future_price_change = 4
          /\ ret.data[k].spot_pnl = 50
          /\ ret.data[k].future_pnl = -20
          /\ ret.data[k].total_pnl = 30
          /\ ret.data[k].unhedged_pnl = 50

\* The sum of the column c over the rows 1..k of the record set.
RunningSum(data, c, k) == SumSeq(SubSeq(Column(data, c), 1, k))

\* C2: in every record set run_backtest returns, total_pnl = spot_pnl +
\* future_pnl in every row, and each of the four cumulative columns at row k is
\* the sum of its base column over the rows 1..k of the record set.
C2_RunningSums ==
    (op = "run_backtest" /\ raised = NoError) =>
        \A k \in 1..Len(ret.data) :
            /\ ret.data[k].total_pnl = ret.data[k].spot_pnl + ret.data[k].future_pnl
            /\ ret.data[k].total_pnl_cumulative = RunningSum(ret.data, "total_pnl", k)
            /\ ret.data[k].unhedged_pnl_cumulative = RunningSum(ret.data, "unhedged_pnl", k)
            /\ ret.data[k].spot_pnl_cumulative = RunningSum(ret.data, "spot_pnl", k)
            /\ ret.data[k].future_pnl_cumulative = RunningSum(ret.data, "future_pnl", k)
            /\ (k > 1 => ret.data[k].date > ret.data[k - 1].date)

\* A record set of several rows whose last cumulative total differs from the
\* last day's total: the running sum has gathered more than one day.
C2_Witness ==
    /\ op = "run_backtest" /\ raised = NoError
    /\ Len(ret.data) > 1
    /\ ret.data[Len(ret.data)].total_pnl_cumulative # ret.data[Len(ret.data)].total_pnl
    /\ ret.data[Len(ret.data)].total_pnl # 0

\* C9: the engine holds one active backtest: after any sequence of calls the
\* cached result is that of the latest run_backtest that returned, and what
\* period analysis, rolling metrics and the summary return is computed from it.
C9_ActiveBacktest ==
    /\ backtest_results = (IF last_run = None THEN None ELSE last_run.ret)
    /\ (op = "get_period_analysis" /\ raised = NoError) =>
          /\ last_run # None
          /\ ret = PeriodAnalysis(last_run.ret, args.start_date, args.end_date)
    /\ (op = "calculate_rolling_metrics" /\ raised = NoError) =>
          /\ last_run # None
          /\ ret = RollingMetrics(last_run.ret, args.window_size)
    /\ (op = "generate_performance_summary" /\ raised = NoError) =>
          /\ last_run # None
          /\ ret = PerformanceSummary(last_run.ret)

\* A summary read after a run replaced the result of an earlier one.
C9_Witness ==
    /\ replaced
    /\ op = "generate_performance_summary"
    /\ raised = NoError
    /\ ret = PerformanceSummary(last_run.ret)

\* C10: period analysis, rolling metrics and the summary, called on an engine
\* on which no run_backtest has returned yet, raise the state error (the
\* ValueError that asks for a backtest to be run first) and return nothing.
C10_NoBacktestYet ==
    (op \in Queries /\ last_run = None) =>
        /\ raised = ErrNoBacktest
        /\ ret = None
        /\ backtest_results = None

\* Each of the three queries refused on an engine without a backtest.
C10_Witness ==
    /\ op = "calculate_rolling_metrics"
    /\ last_run = None
    /\ raised = ErrNoBacktest
    /\ ret = None

(***************************************************************************)
(* Properties of the detector, checked under SpecDetect.                   *)
(***************************************************************************)
\* The maximal runs of consecutive extreme days, as pairs of row positions.
MaximalRuns(extreme) ==
    {r \in (1..Len(extreme)) \X (1..Len(extreme)) :
        /\ r[1] <= r[2]
        /\ \A i \in r[1]..r[2] : extreme[i]
        /\ (r[1] = 1 \/ ~extreme[r[1] - 1])
        /\ (r[2] = Len(extreme) \/ ~extreme[r[2] + 1])}

RunLength(run) == run[2] - run[1] + 1

\* The runs that are long enough to be a stress period.
LongRuns(data, price_change_threshold, min_consecutive_days) ==
    {r \in MaximalRuns(ExtremeDays(data, price_change_threshold)) :
        RunLength(r) >= min_consecutive_days}

\* The period spans the run: its first through its last extreme day.
Covers(period, data, run) ==
    /\ period.start_date = data[run[1]].date
    /\ period.end_date = data[run[2]].date
    /\ period.duration_days = RunLength(run)

\* The list holds one period for each run, in the order of the days.
EmitsRuns(periods, data, runs) ==
    /\ Len(periods) = Cardinality(runs)
    /\ \A run \in runs :
          Covers(periods[1 + Cardinality({r \in runs : r[1] < run[1]})], data, run)

\* The last day of the series is extreme: the detector is InStress at the end.
EndsInStress(data, price_change_threshold) ==
    ExtremeDays(data, price_change_threshold)[Len(data)]

\* C3: identify_stress_periods is the machine Calm/InStress over the days: on
\* a series whose runs are all ended by a calm day it returns one period for
\* each maximal run of extreme days of at least min_consecutive_days, spanning
\* the run's first through last extreme day, and nothing for shorter runs.
C3_CalmInStress ==
    (/\ op = "identify_stress_periods"
     /\ args.aligned_data # <<>>
     /\ ~EndsInStress(args.aligned_data, args.price_change_threshold)) =>
        /\ raised = NoError
        /\ EmitsRuns(ret.periods, args.aligned_data,
                     LongRuns(args.aligned_data, args.price_change_threshold,
                              args.min_consecutive_days))

\* The run of the series that its last row is in.
FinalRun(data, price_change_threshold) ==
    CHOOSE r \in MaximalRuns(ExtremeDays(data, price_change_threshold)) :
        r[2] = Len(data)

\* C4: on a series that ends InStress, identify_stress_periods closes the
\* final run with the last row given to it and emits it exactly when its
\* length, first extreme day through last row, is at least
\* min_consecutive_days, whatever the labels of the rows are.
C4_FinalRunClosed ==
    (/\ op = "identify_stress_periods"
     /\ args.aligned_data # <<>>
     /\ EndsInStress(args.aligned_data, args.price_change_threshold)) =>
        LET data == args.aligned_data
            final == FinalRun(data, args.price_change_threshold)
        IN  /\ raised = NoError
            /\ IF RunLength(final) >= args.min_consecutive_days
               THEN /\ ret.periods # <<>>
                    /\ Covers(ret.periods[Len(ret.periods)], data, final)
               ELSE \A k \in 1..Len(ret.periods) :
                        ret.periods[k].end_date < data[final[1]].date

(***************************************************************************)
(* Properties of the stress test, checked under SpecStress.                *)
(***************************************************************************)
\* The call was given a backtest result with its record set.
GivenBacktest ==
    /\ op = "run_stress_test"
    /\ args.backtest_results # None
    /\ "data" \in DOMAIN args.backtest_results

\* The dates of the records of the days start_date..end_date.
RecordDates(data, start_date, end_date) ==
    Column(DateSlice(data, start_date, end_date), "date")

\* The call was driven by a list of periods as a detection on the aligned
\* series makes them: no period starts on the first day, whose change is
\* undefined.
DrivenByDetected ==
    /\ GivenBacktest
    /\ args.custom_period = None
    /\ Truthy(args.stress_periods)
    /\ \A k \in 1..Len(args.stress_periods.list) :
          args.stress_periods.list[k].start_index >= 1

\* C5: when a period detected on the aligned series is tested against the
\* backtest of that series, the rows sliced by its start_index..end_index are
\* the backtest records of the days start_date..end_date.
C5_SliceIsPeriodDays ==
    (DrivenByDetected /\ raised = NoError) =>
        \A k \in 1..Len(ret.stress_periods) :
            ret.stress_periods[k].period_rows =
                RecordDates(args.backtest_results.data,
                            ret.stress_periods[k].period_info.start_date,
                            ret.stress_periods[k].period_info.end_date)

\* The days of the rows the tested periods were scored on.
TestedDates(results) == UNION {Range(results[k].period_rows) : k \in 1..Len(results)}

\* C6: in every result of run_stress_test the normal-period comparison is
\* computed over the records that no tested period covers, periods passed as
\* an argument included; over all records when no period was tested or when
\* none is left.
C6_NormalPeriodRows ==
    (GivenBacktest /\ raised = NoError) =>
        LET dates == Column(args.backtest_results.data, "date")
            tested == TestedDates(ret.stress_periods)
            left == SelectSeq(dates, LAMBDA d : d \notin tested)
        IN  ret.normal_period_comparison.period_rows =
                IF left = <<>> THEN dates ELSE left

\* C7: called with neither periods nor a custom range, run_stress_test tests
\* the periods detected, with the defaults, from the record set of the
\* backtest passed to that call, whatever calls were made on the analyzer
\* before.
C7_DetectsOnPassedBacktest ==
    (GivenBacktest /\ args.stress_periods = None /\ args.custom_period = None) =>
        /\ raised = NoError
        /\ EmitsRuns([k \in 1..Len(ret.stress_periods) |->
                         ret.stress_periods[k].period_info],
                     args.backtest_results.data,
                     LongRuns(args.backtest_results.data, DefaultThreshold,
                              DefaultMinDays))

\* C8: one driver determines the tested periods of a call that returns: a
\* custom range gives one result, over the records within its inclusive date
\* bounds, of type custom, whether periods are supplied with it or not;
\* without it, supplied periods give one result each, in the order supplied.
C8_OneDriver ==
    (GivenBacktest /\ raised = NoError) =>
        /\ args.custom_period # None =>
              /\ ret.test_type = "custom_period"
              /\ Len(ret.stress_periods) = 1
              /\ ret.stress_periods[1].period_info.stress_type = "custom"
              /\ ret.stress_periods[1].period_rows =
                    RecordDates(args.backtest_results.data,
                                args.custom_period.start_date,
                                args.custom_period.end_date)
        /\ (args.custom_period = None /\ Truthy(args.stress_periods)) =>
              /\ ret.test_type = "identified_periods"
              /\ Len(ret.stress_periods) = Len(args.stress_periods.list)
              /\ \A k \in 1..Len(ret.stress_periods) :
                    ret.stress_periods[k].period_info = args.stress_periods.list[k]

\* Periods and a custom range supplied together: the range was scored.
C8_Witness ==
    /\ GivenBacktest
    /\ raised = NoError
    /\ args.custom_period # None
    /\ Truthy(args.stress_periods)
    /\ ret.test_type = "custom_period"
    /\ Len(ret.stress_periods) = 1
    /\ ret.stress_periods[1].period_rows # Column(args.backtest_results.data, "date")


(***************************************************************************)
(* More properties of the engine, checked under Spec.                      *)
(***************************************************************************)
\* The positions of the cached records whose date is within the bounds.
PositionsWithin(data, start_date, end_date) ==
    {k \in 1..Len(data) : start_date <= data[k].date /\ data[k].date <= end_date}

\* The rows of data at the positions of S, in the order of data.
RECURSIVE RowsAt(_, _, _)
RowsAt(data, S, k) ==
    IF k > Len(data) THEN <<>>
    ELSE (IF k \in S THEN <<data[k]>> ELSE <<>>) \o RowsAt(data, S, k + 1)

\* C11: after a run that returned, period analysis returns the cached records
\* with start_date <= date <= end_date, and raises the error of an empty
\* period instead of returning when no cached record is within the bounds,
\* which is so whenever start_date > end_date.
C11_PeriodSlice ==
    (op = "get_period_analysis" /\ last_run # None) =>
        LET within == PositionsWithin(last_run.ret.data, args.start_date, args.end_date)
        IN  /\ args.start_date > args.end_date => within = {}
            /\ IF within = {}
               THEN raised = ErrNoPeriodData /\ ret = None
               ELSE /\ raised = NoError
                    /\ ret.period_data = RowsAt(last_run.ret.data, within, 1)

\* A period whose start is after its end, asked of an engine with a backtest.
C11_Witness ==
    /\ op = "get_period_analysis"
    /\ last_run # None
    /\ args.start_date > args.end_date
    /\ raised = ErrNoPeriodData
    /\ ret = None

\* C12: run_backtest on an empty series raises the error of empty data and
\* produces no result: nothing is returned and nothing is cached by the call.
C12_EmptySeries ==
    (op = "run_backtest" /\ args.aligned_data = <<>>) =>
        /\ raised = ErrEmptyData
        /\ ret = None
        /\ backtest_results = (IF last_run = None THEN None ELSE last_run.ret)
        /\ (last_run # None => last_run.args.aligned_data # <<>>)

\* An empty series given to an engine that has run no backtest.
C12_Witness ==
    /\ op = "run_backtest"
    /\ args.aligned_data = <<>>
    /\ raised = ErrEmptyData
    /\ backtest_results = None

\* C13: for every non-empty aligned series of n rows run_backtest returns a
\* record set of n-1 rows, one for each day but the first, in date order,
\* with the metrics computed over those rows.
C13_AllButFirstDay ==
    (op = "run_backtest" /\ args.aligned_data # <<>>) =>
        /\ raised = NoError
        /\ Len(ret.data) = Len(args.aligned_data) - 1
        /\ \A k \in 1..Len(ret.data) : ret.data[k].date = args.aligned_data[k + 1].date
        /\ ret.performance_metrics.total_days = Len(args.aligned_data) - 1


(***************************************************************************)
(* DataProcessor.align_data                                                *)
(*                                                                         *)
(* A frame given to align_data is a sequence of rows; its columns are the  *)
(* fields of its rows other than idx, the row label.  A frame without rows *)
(* still has its columns, which the empty sequence does not show: nothing  *)
(* below reads the columns of a frame without rows.                        *)
(***************************************************************************)
ErrNoOverlap == "ValueError: spot and future data have no date in common"

\* The columns of a row other than the key of the merge.
ValueColumns(row) == DOMAIN row \ {"idx", "date"}

\* The name a value column gets in the merged frame: a column that both
\* frames have is given the suffix of its side.
MergedName(c, other_columns, suffix) == IF c \in other_columns THEN c \o suffix ELSE c

\* One row of the merged frame: the date and the value columns of both rows.
MergeRow(left, right) ==
    LET lc == ValueColumns(left)
        rc == ValueColumns(right)
        lnames == {MergedName(c, rc, "_x") : c \in lc}
        rnames == {MergedName(c, lc, "_y") : c \in rc}
    IN  [n \in {"date"} \cup lnames \cup rnames |->
            IF n = "date" THEN left.date
            ELSE IF n \in lnames
                 THEN left[CHOOSE c \in lc : MergedName(c, rc, "_x") = n]
                 ELSE right[CHOOSE c \in rc : MergedName(c, lc, "_y") = n]]

\* The rows of right that match one row of left, in the order of right.
RECURSIVE MatchesOf(_, _)
MatchesOf(left_row, right) ==
    IF right = <<>> THEN <<>>
    ELSE (IF right[1].date = left_row.date THEN <<MergeRow(left_row, right[1])>> ELSE <<>>)
         \o MatchesOf(left_row, Tail(right))

\* pd.merge(spot_df, future_df, on='date', how='inner'): every pair of rows
\* with the same date, in the order of the left frame.
RECURSIVE InnerMerge(_, _)
InnerMerge(left, right) ==
    IF left = <<>> THEN <<>>
    ELSE MatchesOf(left[1], right) \o InnerMerge(Tail(left), right)

\* The row put in its place among rows that are sorted: after the rows of
\* the same date.
RECURSIVE InsertByDate(_, _)
InsertByDate(sorted, row) ==
    IF sorted = <<>> THEN <<row>>
    ELSE IF row.date < sorted[1].date THEN <<row>> \o sorted
         ELSE <<sorted[1]>> \o InsertByDate(Tail(sorted), row)

\* A frame left in the order of the merge.
Unsorted(frame) == frame

\* sort_values('date'): ascending; rows of the same date keep their order, as
\* the sort does on frames this short.
RECURSIVE SortByDate(_)
SortByDate(frame) ==
    IF frame = <<>> THEN <<>>
    ELSE InsertByDate(SortByDate(SubSeq(frame, 1, Len(frame) - 1)), frame[Len(frame)])

\* reset_index(drop=True): the rows are labelled 0..n-1.
ResetIndex(frame) ==
    [i \in 1..Len(frame) |->
        [c \in DOMAIN frame[i] \cup {"idx"} |-> IF c = "idx" THEN i - 1 ELSE frame[i][c]]]

\* An align_data that returns whatever the merge gives.
AlignErrorUnchecked(spot_df, future_df) == NoError

\* The exception align_data raises, NoError when it returns.
AlignError(spot_df, future_df) ==
    IF InnerMerge(spot_df, future_df) = <<>> THEN ErrNoOverlap ELSE NoError

\* The frame align_data returns.
AlignedData(spot_df, future_df) == ResetIndex(SortByDate(InnerMerge(spot_df, future_df)))

\* One call of align_data: its arguments, what it raises, what it returns.
AlignCall(spot_df, future_df) ==
    [args |-> [spot_df |-> [rows |-> spot_df], future_df |-> [rows |-> future_df]],
     raised |-> AlignError(spot_df, future_df),
     ret |-> IF AlignError(spot_df, future_df) # NoError THEN None
             ELSE [rows |-> AlignedData(spot_df, future_df)],
     passed |-> [spot_df |-> [rows |-> spot_df], future_df |-> [rows |-> future_df]]]

\* The processor keeps nothing of a call.
align_data(call) ==
    /\ op' = "align_data"
    /\ args' = call.args
    /\ raised' = call.raised
    /\ ret' = call.ret
    /\ passed' = call.passed
    /\ UNCHANGED <<backtest_results, stress_periods, stress_results, last_run, replaced,
                   calls, last_calculation>>

(***************************************************************************)
(* The aligner's specification: align_data on spot and futures series of   *)
(* a few rows, dates repeated or out of order included, and on an aligned  *)
(* series with itself.                                                     *)
(***************************************************************************)
MaxAlignLen == 2

AlignDates == {FirstDate, FirstDate + 1}

SpotRows == {[date |-> d, spot_price |-> p] : d \in AlignDates, p \in SpotPrices}
FutureRows == {[date |-> d, future_price |-> p] : d \in AlignDates, p \in FuturePrices}

FramesOf(rows) == UNION {SeqsOf(rows, n) : n \in 0..MaxAlignLen}

SpotFrames == FramesOf(SpotRows)
FutureFrames == FramesOf(FutureRows)

LoadedAlignCalls == {AlignCall(s, f) : s \in SpotFrames, f \in FutureFrames}

\* The series align_data has returned, given to it again as both arguments.
SelfAlignCalls ==
    {AlignCall(c.ret.rows, c.ret.rows) : c \in {d \in LoadedAlignCalls : d.raised = NoError}}

AlignData == \E call \in LoadedAlignCalls : align_data(call)

AlignAligned == \E call \in SelfAlignCalls : align_data(call)

NextAlign ==
    \/ AlignData
    \/ AlignAligned

SpecAlign == Init /\ [][NextAlign]_vars


(***************************************************************************)
(* Properties of the aligner, checked under SpecAlign.                     *)
(***************************************************************************)
\* The call was given a spot series and a futures series.
AlignedLoaded ==
    /\ op = "align_data"
    /\ args.spot_df.rows \in SpotFrames
    /\ args.future_df.rows \in FutureFrames

\* The dates that occur in both series.
CommonDates(spot_df, future_df) ==
    {spot_df[i].date : i \in 1..Len(spot_df)}
    \cap {future_df[j].date : j \in 1..Len(future_df)}

\* A date with the spot price and the futures price the two series give it.
PricedDays(spot_df, future_df) ==
    {[date |-> spot_df[i].date, spot_price |-> spot_df[i].spot_price,
      future_price |-> future_df[j].future_price] :
        <<i, j>> \in {p \in (1..Len(spot_df)) \X (1..Len(future_df)) :
                        spot_df[p[1]].date = future_df[p[2]].date}}

\* No date occurs twice in the series.
DatesDistinct(frame) ==
    \A i, j \in 1..Len(frame) : frame[i].date = frame[j].date => i = j

\* C14: align_data returns the rows whose date occurs in both series, each
\* with the spot price and the futures price of its date, in ascending order
\* of date: one row for each common date when no date is repeated.
C14_InnerJoinSorted ==
    (AlignedLoaded /\ raised = NoError) =>
        LET spot_df == args.spot_df.rows
            future_df == args.future_df.rows
        IN  /\ {[date |-> ret.rows[k].date, spot_price |-> ret.rows[k].spot_price,
                 future_price |-> ret.rows[k].future_price] : k \in 1..Len(ret.rows)}
               = PricedDays(spot_df, future_df)
            /\ \A k \in 1..Len(ret.rows) :
                  DOMAIN ret.rows[k] = {"idx", "date", "spot_price", "future_price"}
            /\ \A k \in 2..Len(ret.rows) : ret.rows[k - 1].date <= ret.rows[k].date
            /\ (DatesDistinct(spot_df) /\ DatesDistinct(future_df)) =>
                  Len(ret.rows) = Cardinality(CommonDates(spot_df, future_df))

\* Two series with their days in different orders and both days in common.
C14_Witness ==
    /\ AlignedLoaded
    /\ raised = NoError
    /\ Len(args.spot_df.rows) = 2
    /\ args.spot_df.rows[1].date > args.spot_df.rows[2].date
    /\ Len(ret.rows) = 2
    /\ ret.rows[1].date < ret.rows[2].date
    /\ ret.rows[1].spot_price = args.spot_df.rows[2].spot_price

\* C15: align_data raises the error of an empty result whenever the two
\* series have no date in common, as when either has no row, and only then;
\* it never returns a series without rows.
C15_NoOverlapRaises ==
    AlignedLoaded =>
        /\ (CommonDates(args.spot_df.rows, args.future_df.rows) = {}) <=>
              (raised = ErrNoOverlap)
        /\ raised # NoError => ret = None /\ raised = ErrNoOverlap
        /\ raised = NoError => ret.rows # <<>>

\* A spot series with rows aligned with a futures series without rows.
C15_Witness ==
    /\ AlignedLoaded
    /\ args.spot_df.rows # <<>>
    /\ args.future_df.rows = <<>>
    /\ raised = ErrNoOverlap
    /\ ret = None

\* An aligned series as the specification has it: it has rows, one per date,
\* dates increasing, each with a spot price and a futures price.
IsAlignedSeries(frame) ==
    /\ frame # <<>>
    /\ \A k \in 1..Len(frame) :
          DOMAIN frame[k] = {"idx", "date", "spot_price", "future_price"}
    /\ \A k \in 2..Len(frame) : frame[k - 1].date < frame[k].date

\* C16: align is idempotent: an aligned series aligned with itself gives the
\* same series, with the same dates, prices and fields.
C16_Idempotent ==
    (/\ op = "align_data"
     /\ args.spot_df = args.future_df
     /\ IsAlignedSeries(args.spot_df.rows)) =>
        /\ raised = NoError
        /\ ret.rows = args.spot_df.rows

\* C17: every series align_data returns has one row per date, dates strictly
\* increasing, whatever the input series are.
C17_OneRowPerDate ==
    (op = "align_data" /\ raised = NoError) =>
        \A k \in 2..Len(ret.rows) : ret.rows[k - 1].date < ret.rows[k].date


(***************************************************************************)
(* DataProcessor.load_spot_data                                            *)
(*                                                                         *)
(* The file is the frame read_csv makes of it: rows with a date and a      *)
(* spot_price cell, NaN where the file has no price.  Every row has its    *)
(* date and both columns are there.  The call returns the pair of a frame  *)
(* or None and a message; it raises nothing.                               *)
(***************************************************************************)
MsgEmpty == "data is empty"
MsgNegativePrice == "spot price must not be negative"
MsgMissingPrice == "spot price has missing values"
MsgLoaded == ""

DROP == "drop"
INTERPOLATE == "interpolate"

\* df['spot_price'].isnull().any()
AnyPriceMissing(df) == \E i \in 1..Len(df) : df[i].spot_price = NaN

\* (df['spot_price'] < 0).any(), which NaN is not
AnyPriceNegative(df) ==
    \E i \in 1..Len(df) : df[i].spot_price # NaN /\ df[i].spot_price[1] < 0

\* validate_spot_data: the message of the first check that fails, MsgLoaded
\* when the data is valid.
ValidateSpotData(df) ==
    IF df = <<>> THEN MsgEmpty
    ELSE IF AnyPriceNegative(df) THEN MsgNegativePrice
         ELSE IF AnyPriceMissing(df) THEN MsgMissingPrice
              ELSE MsgLoaded

\* df.dropna(subset=['spot_price'])
DropMissingPrice(df) == SelectSeq(df, LAMBDA row : row.spot_price # NaN)

\* The rows before row i, and after it, that have a price.
PricedBefore(df, i) == {p \in 1..(i - 1) : df[p].spot_price # NaN}
PricedAfter(df, i) == {q \in (i + 1)..Len(df) : df[q].spot_price # NaN}

\* Series.interpolate(): a missing cell with a price before it is filled, on
\* the line between the nearest prices around it or, with none after it,
\* with the last price; the filled cell is the fraction <<num, den>>.
InterpolatedCell(df, i) ==
    IF df[i].spot_price # NaN \/ PricedBefore(df, i) = {} THEN df[i].spot_price
    ELSE LET p == MaxOf(PricedBefore(df, i))
         IN  IF PricedAfter(df, i) = {} THEN df[p].spot_price
             ELSE LET q == MinOf(PricedAfter(df, i))
                  IN  <<df[p].spot_price[1] * (q - p)
                        + (df[q].spot_price[1] - df[p].spot_price[1]) * (i - p),
                        q - p>>

Interpolate(df) ==
    [i \in 1..Len(df) |-> [date |-> df[i].date, spot_price |-> InterpolatedCell(df, i)]]

\* The branch on handle_missing, taken when a price is missing.
HandleMissing(df, handle_missing) ==
    IF ~AnyPriceMissing(df) THEN df
    ELSE IF handle_missing = DROP THEN DropMissingPrice(df)
         ELSE IF handle_missing = INTERPOLATE THEN DropMissingPrice(Interpolate(df))
              ELSE df

\* The price of a cell that is not NaN: the number, or the fraction of a
\* filled cell.
PriceOf(cell) == IF Len(cell) = 1 THEN cell[1] ELSE cell

PricedRows(df) ==
    [i \in 1..Len(df) |-> [date |-> df[i].date, spot_price |-> PriceOf(df[i].spot_price)]]

\* One call of load_spot_data: the pair it returns.
LoadSpotDataResult(df, handle_missing) ==
    IF ValidateSpotData(df) # MsgLoaded
    THEN [df |-> None, message |-> ValidateSpotData(df)]
    ELSE [df |-> [rows |-> ResetIndex(SortByDate(PricedRows(HandleMissing(df,
                                                                        handle_missing))))],
          message |-> MsgLoaded]

LoadSpotDataCall(df, handle_missing) ==
    [args |-> [file |-> [rows |-> df], handle_missing |-> handle_missing],
     ret |-> LoadSpotDataResult(df, handle_missing)]

load_spot_data(call) ==
    /\ op' = "load_spot_data"
    /\ args' = call.args
    /\ raised' = NoError
    /\ ret' = call.ret
    /\ passed' = EmptyDict
    /\ UNCHANGED <<backtest_results, stress_periods, stress_results, last_run, replaced,
                   calls, last_calculation>>

(***************************************************************************)
(* The loader's specification: load_spot_data on files of a few rows, with *)
(* prices missing or negative, under either policy.                        *)
(***************************************************************************)
MaxFileLen == 3

FileCells == {NaN, <<-1>>} \cup {<<p>> : p \in SpotPrices}
FileRows == {[date |-> d, spot_price |-> c] : d \in AlignDates, c \in FileCells}
Files == UNION {SeqsOf(FileRows, n) : n \in 0..MaxFileLen}

LoadSpotDataCalls ==
    {LoadSpotDataCall(df, handle_missing) :
        df \in Files, handle_missing \in {DROP, INTERPOLATE}}

LoadSpotData == \E call \in LoadSpotDataCalls : load_spot_data(call)

NextLoad == LoadSpotData

SpecLoad == Init /\ [][NextLoad]_vars

(***************************************************************************)
(* Properties of the loader, checked under SpecLoad.                       *)
(***************************************************************************)
\* The file has rows, no negative price, and a row without a price.
LoadedWithGaps ==
    /\ op = "load_spot_data"
    /\ args.file.rows # <<>>
    /\ ~AnyPriceNegative(args.file.rows)
    /\ AnyPriceMissing(args.file.rows)

\* The dates and prices of the rows of the file that have a price.
PricedDaysOf(df) ==
    {<<df[i].date, df[i].spot_price[1]>> : i \in {k \in 1..Len(df) : df[k].spot_price # NaN}}

\* The rows without a price that have a priced row before and after them.
InteriorGaps(df) ==
    {i \in 1..Len(df) :
        df[i].spot_price = NaN /\ PricedBefore(df, i) # {} /\ PricedAfter(df, i) # {}}

\* C18: loading spot data with missing prices applies the policy of the
\* caller: with "drop" the load succeeds and returns the rows that have a
\* price; with "interpolate" it succeeds and returns the rows with interior
\* gaps filled, rows still without a price removed.
C18_MissingPolicy ==
    LoadedWithGaps =>
        /\ ret.df # None
        /\ args.handle_missing = DROP =>
              {<<ret.df.rows[k].date, ret.df.rows[k].spot_price>> :
                  k \in 1..Len(ret.df.rows)} = PricedDaysOf(args.file.rows)
        /\ args.handle_missing = INTERPOLATE =>
              Len(ret.df.rows) >= Cardinality(PricedDaysOf(args.file.rows))
                                  + Cardinality(InteriorGaps(args.file.rows))

(***************************************************************************)
(* HedgeRatioCalculator.calculate_optimal_hedge_ratio                      *)
(*                                                                         *)
(* Prices are integers and the statistics are exact fractions <<num, den>>.*)
(* A float division by zero does not raise: it gives NaN for 0/0 and an    *)
(* infinity, written <<1, 0>> or <<-1, 0>>, otherwise.  The window is None *)
(* or a record [n |-> N].  Of the regression by statsmodels the model      *)
(* keeps its slope and whether it has one: add_constant adds no constant   *)
(* to a column that is already a non-zero constant, the fit then has one   *)
(* parameter, and reading params[1] raises.  The p-values and the other    *)
(* floating-point statistics of the result dictionary are left out: no     *)
(* property below reads them.                                              *)
(***************************************************************************)
ErrEmptyRatioData == "ValueError: data is empty, cannot calculate the hedge ratio"
ErrInsufficientData == "ValueError: not enough data to calculate the hedge ratio"
ErrNoSlope == "IndexError: index 1 is out of bounds for axis 0 with size 1"

ALL_DATA == "all_data"
MINIMUM_VARIANCE == "minimum_variance"

\* `if window_size`: None and 0 are false.
WindowGiven(window_size) == window_size # None /\ window_size.n # 0

\* DataFrame.tail(n) for 0 <= n <= len: the last n rows, labels kept.
TailRows(frame, n) == SubSeq(frame, Len(frame) - n + 1, Len(frame))

\* A selection that ignores the window.
SelectWholeSeries(aligned_data, window_size) == aligned_data

\* The rows the estimate is computed over.
SelectWindow(aligned_data, window_size) ==
    IF WindowGiven(window_size) /\ window_size.n < Len(aligned_data)
    THEN TailRows(aligned_data, window_size.n)
    ELSE aligned_data

\* The frame with its two columns of day-over-day differences.
WithChanges(data) ==
    LET spot_change == Diff(Column(data, "spot_price"))
        future_change == Diff(Column(data, "future_price"))
    IN  [i \in 1..Len(data) |->
            [idx |-> data[i].idx, date |-> data[i].date,
             spot_price |-> data[i].spot_price, future_price |-> data[i].future_price,
             spot_change |-> spot_change[i], future_change |-> future_change[i]]]

\* DataFrame.dropna() on that frame: the prices of an aligned series are
\* never missing, so only the differences can be NaN.
RECURSIVE DropNaChanges(_)
DropNaChanges(frame) ==
    IF frame = <<>> THEN <<>>
    ELSE IF frame[1].spot_change = NaN \/ frame[1].future_change = NaN
         THEN DropNaChanges(Tail(frame))
         ELSE <<[idx |-> frame[1].idx, date |-> frame[1].date,
                 spot_price |-> frame[1].spot_price,
                 future_price |-> frame[1].future_price,
                 spot_change |-> frame[1].spot_change[1],
                 future_change |-> frame[1].future_change[1]]>>
              \o DropNaChanges(Tail(frame))

\* n(n-1) times the sample covariance of x and y: np.cov(x, y)[0, 1] is this
\* over n(n-1), as np.cov(x, y)[1, 1] is VarianceTimes(y) over n(n-1).
CovTimes(x, y) ==
    Len(x) * SumSeq([i \in 1..Len(x) |-> x[i] * y[i]]) - SumSeq(x) * SumSeq(y)

\* numpy's float division.
FloatDiv(num, den) ==
    IF den # 0 THEN <<num, den>>
    ELSE IF num = 0 THEN NaN
    ELSE IF num > 0 THEN <<1, 0>> ELSE <<-1, 0>>

\* The covariance over the variance of the spot changes.
HedgeRatioOverSpot(spot_change, future_change) ==
    FloatDiv(CovTimes(spot_change, future_change), VarianceTimes(spot_change))

\* cov_matrix[0, 1] / cov_matrix[1, 1]
HedgeRatioMV(spot_change, future_change) ==
    FloatDiv(CovTimes(spot_change, future_change), VarianceTimes(future_change))

\* sm.add_constant(future_change) with has_constant = 'skip': no constant
\* is added when the column is one non-zero value throughout.
ConstantSkipped(future_change) ==
    /\ \A i \in 1..Len(future_change) : future_change[i] = future_change[1]
    /\ future_change[1] # 0

\* model.params[1]: the least-squares slope; over a column of zeros the
\* pseudo-inverse gives 0.
HedgeRatioOLS(spot_change, future_change) ==
    IF VarianceTimes(future_change) = 0 THEN <<0, 1>>
    ELSE <<CovTimes(spot_change, future_change), VarianceTimes(future_change)>>

CalculateOptimalHedgeRatio(aligned_data, window_size) ==
    IF aligned_data = <<>> THEN [raised |-> ErrEmptyRatioData, ret |-> None]
    ELSE LET data == DropNaChanges(WithChanges(SelectWindow(aligned_data, window_size)))
             spot_change == Column(data, "spot_change")
             future_change == Column(data, "future_change")
             optimal_ratio == HedgeRatioMV(spot_change, future_change)
         IN  IF Len(data) < 2 THEN [raised |-> ErrInsufficientData, ret |-> None]
             ELSE IF ConstantSkipped(future_change)
                  THEN [raised |-> ErrNoSlope, ret |-> None]
             ELSE [raised |-> NoError,
                   ret |-> [optimal_ratio |-> optimal_ratio,
                            result |->
                               [optimal_hedge_ratio |-> optimal_ratio,
                                hedge_ratio_ols |->
                                    HedgeRatioOLS(spot_change, future_change),
                                calculation_method |-> MINIMUM_VARIANCE,
                                data_points |-> Len(data),
                                window_used |->
                                    IF WindowGiven(window_size)
                                    THEN window_size ELSE [all |-> ALL_DATA]]]]

CalculateOptimalHedgeRatioCall(aligned_data, window_size) ==
    [args |-> [aligned_data |-> [rows |-> aligned_data], window_size |-> window_size],
     out |-> CalculateOptimalHedgeRatio(aligned_data, window_size),
     passed |->
        [aligned_data |->
            [rows |->
                IF aligned_data = <<>>
                   \/ (WindowGiven(window_size) /\ window_size.n < Len(aligned_data))
                THEN aligned_data
                ELSE CallerFrame(aligned_data, Copy(aligned_data),
                                 WithChanges(aligned_data))]]]

calculate_optimal_hedge_ratio(call) ==
    /\ op' = "calculate_optimal_hedge_ratio"
    /\ args' = call.args
    /\ raised' = call.out.raised
    /\ ret' = call.out.ret
    /\ last_calculation' =
           IF call.out.raised = NoError THEN call.out.ret.result ELSE last_calculation
    /\ passed' = call.passed
    /\ UNCHANGED <<backtest_results, stress_periods, stress_results, last_run, replaced>>

(***************************************************************************)
(* The calculator's specification: estimates over aligned series of a few  *)
(* days, with no window and with windows of 1 row up to one more than the  *)
(* series has.  Two named series join the enumerated ones.  LockstepSeries *)
(* is the series of spot prices 100, 102, 101, 105, 103 with a future that *)
(* moves by half the spot's move each day, both written in units of one    *)
(* half so that the prices are integers: the ratio has no unit.            *)
(* TrendSeries has a future that rises by the same amount every day.       *)
(***************************************************************************)
MaxRatioLen == 4

LockstepSeries == AlignedFrame(<<200, 204, 202, 210, 206>>, <<100, 102, 101, 105, 103>>)
TrendSeries == AlignedFrame(<<100, 105, 100>>, <<50, 54, 58>>)

RatioSeries ==
    {LockstepSeries, TrendSeries} \cup
    UNION {{AlignedFrame(s, f) :
                s \in {x \in SeqsOf(SpotPrices, n) : Opens(x, FirstPrices.spot_price)},
                f \in {x \in SeqsOf(FuturePrices, n) : Opens(x, FirstPrices.future_price)}}
           : n \in 0..MaxRatioLen}

WindowsOf(aligned_data) == {None} \cup {[n |-> k] : k \in 1..(Len(aligned_data) + 1)}

CalculateOptimalHedgeRatioCalls ==
    UNION {{CalculateOptimalHedgeRatioCall(aligned_data, window_size) :
                window_size \in WindowsOf(aligned_data)} : aligned_data \in RatioSeries}

Estimate ==
    /\ calls < MaxCalls
    /\ \E call \in CalculateOptimalHedgeRatioCalls : calculate_optimal_hedge_ratio(call)
    /\ calls' = calls + 1

NextRatio == Estimate

SpecRatio == Init /\ [][NextRatio]_vars

(***************************************************************************)
(* Properties of the calculator, checked under SpecRatio.                  *)
(***************************************************************************)
Estimated == op = "calculate_optimal_hedge_ratio"

\* The most recent n rows of a series.
RecentRows(rows, n) == [i \in 1..n |-> rows[Len(rows) - n + i]]

\* The rows the window of the call stands for: the most recent N when a
\* window N smaller than the series is given, the whole series otherwise.
SelectedRows ==
    IF args.window_size # None /\ args.window_size.n < Len(args.aligned_data.rows)
    THEN RecentRows(args.aligned_data.rows, args.window_size.n)
    ELSE args.aligned_data.rows

\* The day-over-day differences of a column.
DayOverDay(rows, c) == [i \in 1..(Len(rows) - 1) |-> rows[i + 1][c] - rows[i][c]]

\* n times the deviations of x from its mean.
Deviations(x) == [i \in 1..Len(x) |-> Len(x) * x[i] - SumSeq(x)]

\* n*n times the sum of the products of the deviations of x and y: Cov(x, y)
\* is this over n*n*(n-1), and Var(y) is CoMoment(y, y) over the same.
CoMoment(x, y) == SumSeq([i \in 1..Len(x) |-> Deviations(x)[i] * Deviations(y)[i]])

\* ratio = Cov(dSpot, dFuture) / Var(dFuture) over the rows, Var not 0.
IsCovOverVar(ratio, rows) ==
    /\ ratio # NaN
    /\ ratio[2] # 0
    /\ ratio[1] * CoMoment(DayOverDay(rows, "future_price"), DayOverDay(rows, "future_price"))
           = ratio[2] * CoMoment(DayOverDay(rows, "spot_price"),
                                 DayOverDay(rows, "future_price"))

Equals2(ratio) == ratio # NaN /\ ratio[2] # 0 /\ ratio[1] = 2 * ratio[2]

\* C19: for every series whose selected window has at least 2 difference
\* rows and a non-zero variance of the future differences, the estimate
\* returns, and its primary ratio is Cov(dSpot, dFuture) / Var(dFuture) over
\* the differences of the selected window; over the whole lockstep series
\* it is exactly 2.
C19_MinimumVarianceRatio ==
    ( /\ Estimated
      /\ Len(SelectedRows) - 1 >= 2
      /\ CoMoment(DayOverDay(SelectedRows, "future_price"),
                  DayOverDay(SelectedRows, "future_price")) # 0 ) =>
        /\ raised = NoError
        /\ IsCovOverVar(ret.optimal_ratio, SelectedRows)
        /\ SelectedRows = LockstepSeries => Equals2(ret.optimal_ratio)

C19_Witness ==
    /\ Estimated
    /\ args.aligned_data.rows = LockstepSeries
    /\ args.window_size = None
    /\ raised = NoError
    /\ Equals2(ret.optimal_ratio)

\* C20: on a series with rows, the estimate is computed over the most
\* recent N rows when a window N smaller than the series is given and over
\* the whole series otherwise, and it raises the error of insufficient
\* data exactly when those rows give fewer than 2 difference rows.
C20_WindowAndMinimum ==
    (Estimated /\ args.aligned_data.rows # <<>>) =>
        /\ raised = ErrInsufficientData <=> Len(SelectedRows) - 1 < 2
        /\ raised = NoError =>
              /\ ret.result.data_points = Len(SelectedRows) - 1
              /\ ret.optimal_ratio # NaN => IsCovOverVar(ret.optimal_ratio, SelectedRows)
              /\ ret.optimal_ratio = NaN =>
                    CoMoment(DayOverDay(SelectedRows, "future_price"),
                             DayOverDay(SelectedRows, "future_price")) = 0

C20_Witness ==
    /\ Estimated
    /\ args.window_size # None
    /\ args.window_size.n < Len(args.aligned_data.rows)
    /\ raised = NoError
    /\ ret.result.data_points = args.window_size.n - 1
    /\ ret.optimal_ratio # NaN
    /\ ~IsCovOverVar(ret.optimal_ratio, args.aligned_data.rows)

(***************************************************************************)
(* HedgeRatioCalculator.validate_hedge_ratio                               *)
(*                                                                         *)
(* A ratio is NaN, an infinity <<1, 0>> or <<-1, 0>>, or a fraction        *)
(* <<num, den>> with den > 0.  The call returns the pair of the verdict    *)
(* and the message; it raises nothing and changes nothing.                 *)
(***************************************************************************)
MsgRatioNaN == "hedge ratio is invalid (NaN)"
MsgRatioInf == "hedge ratio is invalid (infinite)"
MsgRatioTooLarge == "hedge ratio is too large, check the data"
MsgRatioSmall == "hedge ratio is very small, the hedge may have little effect"
MsgRatioLarge == "hedge ratio is large, confirm that future and spot match"
MsgRatioReasonable == "hedge ratio is reasonable"

RatioTooLarge == 10
RatioLarge == 5
RatioSmall == <<1, 100>>

IsNan(ratio) == ratio = NaN
IsInf(ratio) == ratio # NaN /\ ratio[2] = 0

\* abs(ratio) > k and abs(ratio) < f for a finite ratio.
AbsAbove(ratio, k) == Abs(ratio[1]) > k * ratio[2]
AbsBelow(ratio, f) == Abs(ratio[1]) * f[2] < f[1] * ratio[2]

\* f"{ratio:.4f}" of a finite ratio whose four places hold it exactly.
Fixed4(ratio) ==
    [negative |-> ratio[1] < 0,
     whole |-> Abs(ratio[1]) \div ratio[2],
     digits |-> [k \in 1..4 |->
                    (((Abs(ratio[1]) % ratio[2]) * (10 ^ k)) \div ratio[2]) % 10]]

\* The table with a ratio of size 10 counted as too large.
ValidateHedgeRatioInclusive(ratio) ==
    IF IsNan(ratio) THEN [is_valid |-> FALSE, message |-> [text |-> MsgRatioNaN]]
    ELSE IF IsInf(ratio) THEN [is_valid |-> FALSE, message |-> [text |-> MsgRatioInf]]
    ELSE IF ~AbsBelow(ratio, <<RatioTooLarge, 1>>)
         THEN [is_valid |-> FALSE,
               message |-> [text |-> MsgRatioTooLarge, ratio |-> Fixed4(ratio)]]
    ELSE IF AbsBelow(ratio, RatioSmall)
         THEN [is_valid |-> TRUE, message |-> [text |-> MsgRatioSmall]]
    ELSE IF AbsAbove(ratio, RatioLarge)
         THEN [is_valid |-> TRUE, message |-> [text |-> MsgRatioLarge]]
    ELSE [is_valid |-> TRUE, message |-> [text |-> MsgRatioReasonable]]

ValidateHedgeRatio(ratio) ==
    IF IsNan(ratio) THEN [is_valid |-> FALSE, message |-> [text |-> MsgRatioNaN]]
    ELSE IF IsInf(ratio) THEN [is_valid |-> FALSE, message |-> [text |-> MsgRatioInf]]
    ELSE IF AbsAbove(ratio, RatioTooLarge)
         THEN [is_valid |-> FALSE,
               message |-> [text |-> MsgRatioTooLarge, ratio |-> Fixed4(ratio)]]
    ELSE IF AbsBelow(ratio, RatioSmall)
         THEN [is_valid |-> TRUE, message |-> [text |-> MsgRatioSmall]]
    ELSE IF AbsAbove(ratio, RatioLarge)
         THEN [is_valid |-> TRUE, message |-> [text |-> MsgRatioLarge]]
    ELSE [is_valid |-> TRUE, message |-> [text |-> MsgRatioReasonable]]

ValidateHedgeRatioCall(ratio) ==
    [args |-> [ratio |-> ratio], ret |-> ValidateHedgeRatio(ratio)]

validate_hedge_ratio(call) ==
    /\ op' = "validate_hedge_ratio"
    /\ args' = call.args
    /\ raised' = NoError
    /\ ret' = call.ret
    /\ passed' = EmptyDict
    /\ UNCHANGED <<backtest_results, stress_periods, stress_results, last_run, replaced,
                   calls, last_calculation>>

(***************************************************************************)
(* The validation's specification: ratios in thousandths at and around 0,  *)
(* 0.01, 5 and 10, of either sign, with NaN and the two infinities.        *)
(***************************************************************************)
Near == 8

Thousandths ==
    UNION {{m \in (b - Near)..(b + Near) : m >= 0} : b \in {0, 10, 5000, 10000}}

ValidatedRatios ==
    {NaN, <<1, 0>>, <<-1, 0>>} \cup
    {<<s * m, 1000>> : s \in {1, -1}, m \in Thousandths}

ValidateHedgeRatioCalls == {ValidateHedgeRatioCall(ratio) : ratio \in ValidatedRatios}

Validate == \E call \in ValidateHedgeRatioCalls : validate_hedge_ratio(call)

NextValidate == Validate

SpecValidate == Init /\ [][NextValidate]_vars

(***************************************************************************)
(* Properties of the validation, checked under SpecValidate.               *)
(***************************************************************************)
Validated == op = "validate_hedge_ratio"

\* The size of the validated ratio in thousandths, for a finite ratio.
Size == (Abs(args.ratio[1]) * 1000) \div args.ratio[2]
Finite == args.ratio # NaN /\ args.ratio[2] # 0

Verdict(is_valid, text) == ret.is_valid = is_valid /\ ret.message.text = text

\* C21: the validation gives every ratio the one verdict of the ordered
\* table: NaN invalid; infinite invalid; size above 10 invalid, too large;
\* size below 0.01 valid, effect may be limited; size above 5 valid,
\* confirm the match; otherwise valid, reasonable.  The sizes 10, 5 and
\* 0.01 themselves are valid: 10 with the advice to confirm the match, 5
\* and 0.01 as reasonable.
C21_ValidateTable ==
    Validated =>
        /\ raised = NoError
        /\ args.ratio = NaN => Verdict(FALSE, MsgRatioNaN)
        /\ (args.ratio # NaN /\ args.ratio[2] = 0) => Verdict(FALSE, MsgRatioInf)
        /\ (Finite /\ Size > 10000) => Verdict(FALSE, MsgRatioTooLarge)
        /\ (Finite /\ Size < 10) => Verdict(TRUE, MsgRatioSmall)
        /\ (Finite /\ Size > 5000 /\ Size <= 10000) => Verdict(TRUE, MsgRatioLarge)
        /\ (Finite /\ Size >= 10 /\ Size <= 5000) => Verdict(TRUE, MsgRatioReasonable)

C21_Witness ==
    /\ Validated
    /\ args.ratio = <<-10000, 1000>>
    /\ Verdict(TRUE, MsgRatioLarge)

(***************************************************************************)
(* More properties of the detector, checked under SpecDetect.              *)
(***************************************************************************)
SHARP_DECLINE == "sharp decline"
SHARP_RALLY == "sharp rally"
HIGH_VOLATILITY == "high volatility"

\* The type of a period of d days with the cumulative percent change c, a
\* fraction with a positive denominator, under the threshold T.
StressTypeBy(c, d, T) ==
    IF 10 * c[1] < -(3 * T * d * c[2]) THEN SHARP_DECLINE
    ELSE IF 10 * c[1] > 3 * T * d * c[2] THEN SHARP_RALLY
    ELSE HIGH_VOLATILITY

\* C22: a detection with threshold T on a series that has a run to emit
\* returns its periods, and every period carries the stress_type given by
\* its cumulative spot percent change c and its duration d: sharp decline
\* if c < -T*d*0.3, sharp rally if c > T*d*0.3, high volatility otherwise.
C22_StressType ==
    (/\ op = "identify_stress_periods"
     /\ args.aligned_data # <<>>
     /\ LongRuns(args.aligned_data, args.price_change_threshold,
                 args.min_consecutive_days) # {}) =>
        /\ raised = NoError
        /\ \A k \in 1..Len(ret.periods) :
              /\ "stress_type" \in DOMAIN ret.periods[k]
              /\ ret.periods[k].stress_type =
                    StressTypeBy(ret.periods[k].spot_price_change_pct,
                                 ret.periods[k].duration_days,
                                 args.price_change_threshold)

(***************************************************************************)
(* The stress test with failing calls: as SpecStress, and run_stress_test  *)
(* may be called any number of times with no backtest result or with one   *)
(* that has no record set, before and after the other calls.               *)
(***************************************************************************)
InvalidStressTestCalls ==
    {call \in RunStressTestCalls : call.out.raised = ErrInvalidBacktest}

FailStressTest ==
    /\ \E call \in InvalidStressTestCalls : run_stress_test(call)
    /\ UNCHANGED <<calls, last_calculation>>

NextStressFail ==
    \/ RunStressTest
    \/ IdentifyStress
    \/ FailStressTest

SpecStressFail == Init /\ [][NextStressFail]_vars

(***************************************************************************)
(* Properties of the failing stress test, checked under SpecStressFail.    *)
(***************************************************************************)
\* C23: a run_stress_test without a backtest result, or with one that has
\* no record set, raises the error of an invalid backtest and leaves the
\* analyzer's last stress result and its detected periods as they were.
C23_InvalidBacktestRaises ==
    [][(/\ op' = "run_stress_test"
        /\ (args'.backtest_results = None \/ "data" \notin DOMAIN args'.backtest_results))
       => /\ raised' = ErrInvalidBacktest
          /\ ret' = None
          /\ stress_results' = stress_results
          /\ stress_periods' = stress_periods]_vars

\* A call without record set failed on an analyzer that holds a result.
C23_Witness ==
    /\ op = "run_stress_test"
    /\ args.backtest_results # None
    /\ "data" \notin DOMAIN args.backtest_results
    /\ raised = ErrInvalidBacktest
    /\ stress_results # EmptyDict

(***************************************************************************)
(* Properties of the performance metrics, checked under Spec.              *)
(***************************************************************************)
Ran == op = "run_backtest" /\ raised = NoError

\* The volatility of the column is 0, or undefined for want of two values.
NoVolatility(col) == Len(col) < 2 \/ \A i \in 1..Len(col) : col[i] = col[1]

\* The ratio is the mean of the column over its standard deviation, the
\* variance under the root being a non-zero fraction equal to the sum of
\* the squared deviations from the mean over n - 1.
IsMeanOverVolatility(sharpe, col) ==
    /\ "zero" \notin DOMAIN sharpe
    /\ sharpe.mean[2] # 0
    /\ sharpe.mean[1] * Len(col) = sharpe.mean[2] * SumSeq(col)
    /\ sharpe.variance # NaN
    /\ sharpe.variance[1] # 0 /\ sharpe.variance[2] # 0
    /\ sharpe.variance[1] * Len(col) * Len(col) * (Len(col) - 1)
           = sharpe.variance[2] * CoMoment(col, col)

IsSharpeOf(sharpe, col) ==
    IF NoVolatility(col) THEN sharpe = [zero |-> TRUE] ELSE IsMeanOverVolatility(sharpe, col)

\* C24: in the metrics of every backtest the hedged and the unhedged Sharpe
\* ratio are exactly 0 when the volatility of their daily P&L is 0 or
\* undefined, and the mean over the volatility otherwise, the volatility
\* divided by being non-zero.
C24_SharpeGuard ==
    Ran =>
        /\ IsSharpeOf(ret.performance_metrics.sharpe_ratio_hedged,
                      Column(ret.data, "total_pnl"))
        /\ IsSharpeOf(ret.performance_metrics.sharpe_ratio_unhedged,
                      Column(ret.data, "unhedged_pnl"))

\* Two days of an unhedged P&L that does not move, hedged by a future that
\* does: the unhedged ratio is 0 and the hedged one is a quotient.
C24_Witness ==
    /\ Ran
    /\ Len(ret.data) >= 2
    /\ ret.performance_metrics.sharpe_ratio_unhedged = [zero |-> TRUE]
    /\ ret.performance_metrics.sharpe_ratio_hedged # [zero |-> TRUE]


\* The value of the series on day k less its highest value over days 1..k.
BelowPeak(cum, k) ==
    cum[k] - (CHOOSE p \in {cum[j] : j \in 1..k} : \A j \in 1..k : cum[j] <= p)

\* m is the least of the values below the peak, and so at most 0, and 0
\* exactly when the series never falls below an earlier value.
IsMaxDrawdownOf(m, cum) ==
    /\ \E k \in 1..Len(cum) : m = BelowPeak(cum, k)
    /\ \A k \in 1..Len(cum) : m <= BelowPeak(cum, k)
    /\ m <= 0
    /\ m = 0 <=> \A k \in 1..Len(cum) : \A j \in 1..k : cum[j] <= cum[k]

\* C25: for every record set with rows, the max_drawdown of a cumulative
\* P&L series is the minimum over the days k of the cumulative value on day
\* k less the maximum cumulative value over days 1..k; it is at most 0, and
\* 0 exactly when the series never falls below an earlier value.
C25_MaxDrawdown ==
    (Ran /\ ret.data # <<>>) =>
        /\ IsMaxDrawdownOf(ret.performance_metrics.max_drawdown_hedged,
                           Column(ret.data, "total_pnl_cumulative"))
        /\ IsMaxDrawdownOf(ret.performance_metrics.max_drawdown_unhedged,
                           Column(ret.data, "unhedged_pnl_cumulative"))

\* A cumulative series that fell from a peak above its start: the drawdown
\* is negative and is not the series' lowest value.
C25_Witness ==
    /\ Ran
    /\ ret.performance_metrics.max_drawdown_unhedged < 0
    /\ \A k \in 1..Len(ret.data) :
          ret.performance_metrics.max_drawdown_unhedged
              # ret.data[k].unhedged_pnl_cumulative

(***************************************************************************)
(* HedgeRatioCalculator.calculate_hedge_quantity                           *)
(*                                                                         *)
(* An argument is a number and its type: a Python float, or a numpy        *)
(* float64 as the estimate returns it.  A Python float divided by a Python *)
(* zero raises ZeroDivisionError; when either operand is a float64 the     *)
(* division gives NaN or an infinity.  The product or quotient of a        *)
(* float64 is a float64.  round() of NaN or an infinity raises for both    *)
(* types.  The quantities and the contract size are whole and not          *)
(* negative; the ratio is a fraction, NaN or an infinity.                  *)
(***************************************************************************)
ErrZeroDivision == "ZeroDivisionError: float division by zero"
ErrRoundNaN == "ValueError: cannot convert float NaN to integer"
ErrRoundInf == "OverflowError: cannot convert float infinity to integer"

PlusInf == <<1, 0>>
MinusInf == <<-1, 0>>
IsFinite(x) == x # NaN /\ x[2] # 0
Sign(n) == IF n > 0 THEN 1 ELSE IF n < 0 THEN -1 ELSE 0

\* x * y of floats.
FloatMul(x, y) ==
    IF x = NaN \/ y = NaN THEN NaN
    ELSE IF IsFinite(x) /\ IsFinite(y) THEN <<x[1] * y[1], x[2] * y[2]>>
    ELSE IF x[1] = 0 \/ y[1] = 0 THEN NaN
    ELSE <<Sign(x[1]) * Sign(y[1]), 0>>

\* x / y of floats, y finite and not negative: what is raised, the quotient.
FloatTrueDiv(x, y, float64) ==
    IF y[1] = 0
    THEN IF ~float64 THEN [raised |-> ErrZeroDivision, value |-> NaN]
         ELSE IF x = NaN \/ x[1] = 0 THEN [raised |-> NoError, value |-> NaN]
         ELSE [raised |-> NoError, value |-> <<Sign(x[1]), 0>>]
    ELSE IF x = NaN THEN [raised |-> NoError, value |-> NaN]
    ELSE IF ~IsFinite(x) THEN [raised |-> NoError, value |-> x]
    ELSE [raised |-> NoError, value |-> <<x[1] * y[2], x[2] * y[1]>>]

\* round(x) of a finite x with a positive denominator: to the nearest whole
\* number, a half to the even one.
RoundHalfEven(x) ==
    LET whole == Abs(x[1]) \div x[2]
        rest == Abs(x[1]) % x[2]
        up == 2 * rest > x[2] \/ (2 * rest = x[2] /\ whole % 2 = 1)
    IN  Sign(x[1]) * (IF up THEN whole + 1 ELSE whole)

\* round(x): what is raised, the integer.
Round(x) ==
    IF x = NaN THEN [raised |-> ErrRoundNaN, value |-> 0]
    ELSE IF ~IsFinite(x) THEN [raised |-> ErrRoundInf, value |-> 0]
    ELSE [raised |-> NoError, value |-> RoundHalfEven(x)]

CalculateHedgeQuantity(spot_quantity, hedge_ratio, future_contract_size) ==
    LET future_quantity == FloatMul(<<spot_quantity.v, 1>>, hedge_ratio.v)
        contract_count ==
            FloatTrueDiv(future_quantity, <<future_contract_size.v, 1>>,
                         spot_quantity.float64 \/ hedge_ratio.float64
                            \/ future_contract_size.float64)
        rounded == Round(contract_count.value)
        actual ==
            FloatTrueDiv(<<rounded.value * future_contract_size.v, 1>>,
                         <<spot_quantity.v, 1>>,
                         future_contract_size.float64 \/ spot_quantity.float64)
    IN  IF contract_count.raised # NoError
        THEN [raised |-> contract_count.raised, ret |-> None]
        ELSE IF rounded.raised # NoError THEN [raised |-> rounded.raised, ret |-> None]
        ELSE IF actual.raised # NoError THEN [raised |-> actual.raised, ret |-> None]
        ELSE [raised |-> NoError,
              ret |-> [spot_quantity |-> spot_quantity.v,
                       optimal_hedge_ratio |-> hedge_ratio.v,
                       future_quantity_needed |-> future_quantity,
                       future_contract_size |-> future_contract_size.v,
                       contract_count |-> contract_count.value,
                       rounded_contract_count |-> rounded.value,
                       actual_hedge_ratio |-> actual.value]]

CalculateHedgeQuantityCall(spot_quantity, hedge_ratio, future_contract_size) ==
    [args |-> [spot_quantity |-> spot_quantity, hedge_ratio |-> hedge_ratio,
               future_contract_size |-> future_contract_size],
     out |-> CalculateHedgeQuantity(spot_quantity, hedge_ratio, future_contract_size)]

calculate_hedge_quantity(call) ==
    /\ op' = "calculate_hedge_quantity"
    /\ args' = call.args
    /\ raised' = call.out.raised
    /\ ret' = call.out.ret
    /\ passed' = EmptyDict
    /\ UNCHANGED <<backtest_results, stress_periods, stress_results, last_run, replaced,
                   calls, last_calculation>>

(***************************************************************************)
(* The hedge quantity's specification: quantities and contract sizes from  *)
(* 0 up, ratios that are fractions, NaN or an infinity, of either type.    *)
(***************************************************************************)
MaxQuantity == 3

Floats(values) == {[v |-> x, float64 |-> t] : x \in values, t \in BOOLEAN}

QuantityRatios == {NaN, PlusInf, MinusInf, <<0, 1>>, <<1, 2>>, <<-5, 4>>, <<2, 1>>}

CalculateHedgeQuantityCalls ==
    {CalculateHedgeQuantityCall(spot_quantity, hedge_ratio, future_contract_size) :
        spot_quantity \in Floats(0..MaxQuantity),
        hedge_ratio \in Floats(QuantityRatios),
        future_contract_size \in Floats(0..MaxQuantity)}

HedgeQuantity == \E call \in CalculateHedgeQuantityCalls : calculate_hedge_quantity(call)

NextQuantity == HedgeQuantity

SpecQuantity == Init /\ [][NextQuantity]_vars

(***************************************************************************)
(* Properties of the hedge quantity, checked under SpecQuantity.           *)
(***************************************************************************)
IsSentinel(x) == x = NaN \/ x[2] = 0

\* C26: degenerate inputs never make the hedge quantity raise: for every
\* spot quantity, ratio and contract size, 0 included, the call returns a
\* record; the contract count is a sentinel, NaN or an infinity, when the
\* contract size is 0, the actual hedge ratio is one when the spot quantity
\* is 0, and otherwise the actual ratio is rounded_contract_count *
\* contract_size / spot_quantity.
C26_QuantityNeverRaises ==
    op = "calculate_hedge_quantity" =>
        /\ raised = NoError
        /\ args.future_contract_size.v = 0 => IsSentinel(ret.contract_count)
        /\ args.spot_quantity.v = 0 => IsSentinel(ret.actual_hedge_ratio)
        /\ (args.spot_quantity.v # 0 /\ IsFinite(ret.contract_count)) =>
              /\ IsFinite(ret.actual_hedge_ratio)
              /\ ret.actual_hedge_ratio[1] * args.spot_quantity.v
                    = ret.actual_hedge_ratio[2] * ret.rounded_contract_count
                          * args.future_contract_size.v

(***************************************************************************)
(* HedgeRatioCalculator.calculate_hedge_effectiveness                      *)
(*                                                                         *)
(* The hedge ratio is a record [num, den] with den > 0.  The variances are *)
(* fractions, and the quotients by a zero variance are NaN or an infinity  *)
(* as numpy gives them.  The two volatilities, roots of the variances, are *)
(* left out.                                                               *)
(***************************************************************************)
ErrEmptyEffectiveness == "ValueError: data is empty, cannot calculate the effectiveness"
ErrInsufficientEffectiveness ==
    "ValueError: not enough data to calculate the effectiveness"

\* den times (spot_change - hedge_ratio * future_change), row by row.
HedgedChangeTimes(spot_change, future_change, num, den) ==
    [i \in 1..Len(spot_change) |-> den * spot_change[i] - num * future_change[i]]

\* The frame with the three columns the effectiveness assigns to it.
WithHedgedChange(data, hedge_ratio) ==
    LET changes == WithChanges(data)
    IN  [i \in 1..Len(data) |->
            [c \in DOMAIN changes[i] \cup {"hedged_change"} |->
                IF c # "hedged_change" THEN changes[i][c]
                ELSE IF changes[i].spot_change = NaN \/ changes[i].future_change = NaN
                     THEN NaN
                     ELSE <<hedge_ratio.den * changes[i].spot_change[1]
                                - hedge_ratio.num * changes[i].future_change[1],
                            hedge_ratio.den>>]]

\* 1 - x of a float.
OneMinus(x) ==
    IF x = NaN THEN NaN
    ELSE IF x[2] = 0 THEN <<-x[1], 0>>
    ELSE <<x[2] - x[1], x[2]>>

\* The indicators over the difference rows, of which there are at least 2:
\* unhedged is n(n-1) times the variance of the spot changes, hedged is
\* n(n-1) den^2 times the variance of the hedged changes.
EffectivenessMetrics(spot_change, future_change, hedge_ratio) ==
    LET n == Len(spot_change)
        scale == hedge_ratio.den * hedge_ratio.den
        unhedged == VarianceTimes(spot_change)
        hedged == VarianceTimes(HedgedChangeTimes(spot_change, future_change,
                                                  hedge_ratio.num, hedge_ratio.den))
    IN  [hedge_effectiveness |-> OneMinus(FloatDiv(hedged, scale * unhedged)),
         risk_reduction_rate |-> FloatDiv(scale * unhedged - hedged, scale * unhedged),
         unhedged_variance |-> <<unhedged, n * (n - 1)>>,
         hedged_variance |-> <<hedged, scale * n * (n - 1)>>,
         variance_reduction |-> <<scale * unhedged - hedged, scale * n * (n - 1)>>]

CalculateHedgeEffectiveness(aligned_data, hedge_ratio) ==
    IF aligned_data = <<>> THEN [raised |-> ErrEmptyEffectiveness, ret |-> None]
    ELSE LET data == DropNaChanges(WithChanges(aligned_data))
         IN  IF Len(data) < 2 THEN [raised |-> ErrInsufficientEffectiveness, ret |-> None]
             ELSE [raised |-> NoError,
                   ret |-> EffectivenessMetrics(Column(data, "spot_change"),
                                                Column(data, "future_change"),
                                                hedge_ratio)]

CalculateHedgeEffectivenessCall(aligned_data, hedge_ratio) ==
    [args |-> [aligned_data |-> [rows |-> aligned_data], hedge_ratio |-> hedge_ratio],
     out |-> CalculateHedgeEffectiveness(aligned_data, hedge_ratio),
     passed |->
        [aligned_data |->
            [rows |->
                IF aligned_data = <<>> THEN aligned_data
                ELSE CallerFrame(aligned_data, Copy(aligned_data),
                                 WithHedgedChange(aligned_data, hedge_ratio))]]]

calculate_hedge_effectiveness(call) ==
    /\ op' = "calculate_hedge_effectiveness"
    /\ args' = call.args
    /\ raised' = call.out.raised
    /\ ret' = call.out.ret
    /\ passed' = call.passed
    /\ UNCHANGED <<backtest_results, stress_periods, stress_results, last_run, replaced,
                   last_calculation>>

(***************************************************************************)
(* HedgeRatioCalculator.sensitivity_analysis                               *)
(*                                                                         *)
(* Called with the default range and steps: the ratios are the 20 points   *)
(* of np.linspace from base * 0.8 to base * 1.2.  The base ratio is a      *)
(* record [num, den] with num >= 0 and den > 0.  A row of the returned     *)
(* frame holds the ratio and the variance as fractions; the volatility,    *)
(* a root, is left out.  Nothing raises after the check for an empty       *)
(* frame: Series.var() of fewer than two rows is NaN.                      *)
(***************************************************************************)
ErrEmptySensitivity == "ValueError: data is empty, cannot run the sensitivity analysis"

DefaultSteps == 20
DefaultRatioRange == [num |-> 1, den |-> 5]

\* np.linspace(base * (1 - range), base * (1 + range), steps)[i], i from 0,
\* as a fraction over den(base) * den(range) * (steps - 1).
LinspaceRatio(base_ratio, ratio_range, steps, i) ==
    <<base_ratio.num * (ratio_range.den - ratio_range.num) * (steps - 1)
          + i * 2 * base_ratio.num * ratio_range.num,
      base_ratio.den * ratio_range.den * (steps - 1)>>

\* (x - unhedged) and x / unhedged for variances that may be NaN.
VarianceRatio(variance, unhedged_variance) ==
    IF variance = NaN \/ unhedged_variance = NaN THEN NaN
    ELSE FloatDiv(variance[1] * unhedged_variance[2], variance[2] * unhedged_variance[1])

SensitivityRow(spot_change, future_change, base_ratio, ratio) ==
    LET n == Len(spot_change)
        variance ==
            IF n < 2 THEN NaN
            ELSE <<VarianceTimes(HedgedChangeTimes(spot_change, future_change,
                                                   ratio[1], ratio[2])),
                   ratio[2] * ratio[2] * n * (n - 1)>>
        unhedged_variance == Variance(spot_change)
    IN  [hedge_ratio |-> ratio,
         variance |-> variance,
         effectiveness |-> OneMinus(VarianceRatio(variance, unhedged_variance)),
         risk_reduction |-> OneMinus(VarianceRatio(variance, unhedged_variance)),
         ratio_deviation_pct |->
            FloatDiv(100 * (ratio[1] * base_ratio.den - base_ratio.num * ratio[2]),
                     base_ratio.num * ratio[2])]

SensitivityAnalysis(aligned_data, base_ratio) ==
    IF aligned_data = <<>> THEN [raised |-> ErrEmptySensitivity, ret |-> None]
    ELSE LET data == DropNaChanges(WithChanges(aligned_data))
         IN  [raised |-> NoError,
              ret |-> [rows |->
                         [k \in 1..DefaultSteps |->
                             SensitivityRow(Column(data, "spot_change"),
                                            Column(data, "future_change"),
                                            base_ratio,
                                            LinspaceRatio(base_ratio, DefaultRatioRange,
                                                          DefaultSteps, k - 1))]]]

SensitivityAnalysisCall(aligned_data, base_ratio) ==
    [args |-> [aligned_data |-> [rows |-> aligned_data], base_ratio |-> base_ratio],
     out |-> SensitivityAnalysis(aligned_data, base_ratio),
     passed |->
        [aligned_data |->
            [rows |->
                IF aligned_data = <<>> THEN aligned_data
                ELSE CallerFrame(aligned_data, Copy(aligned_data),
                                 WithChanges(aligned_data))]]]

sensitivity_analysis(call) ==
    /\ op' = "sensitivity_analysis"
    /\ args' = call.args
    /\ raised' = call.out.raised
    /\ ret' = call.out.ret
    /\ passed' = call.passed
    /\ UNCHANGED <<backtest_results, stress_periods, stress_results, last_run, replaced,
                   last_calculation>>


(***************************************************************************)
(* The pipeline's specification: one call of one of the seven stages that  *)
(* are handed a series, a backtest result or period records, made on new   *)
(* objects, on the inputs of the stage's own specification or on the       *)
(* aligned series of the engine's.                                         *)
(***************************************************************************)
PipelineEstimateCalls ==
    UNION {{CalculateOptimalHedgeRatioCall(aligned_data, window_size) :
                window_size \in WindowsOf(aligned_data)} : aligned_data \in AlignedInputs}

CalculateHedgeEffectivenessCalls ==
    {CalculateHedgeEffectivenessCall(aligned_data, hedge_ratio) :
        aligned_data \in AlignedInputs, hedge_ratio \in HedgeRatios}

SensitivityAnalysisCalls ==
    {SensitivityAnalysisCall(aligned_data, base_ratio) :
        aligned_data \in AlignedInputs,
        base_ratio \in HedgeRatios \cup {[num |-> 0, den |-> 1]}}

StageAlign ==
    /\ op = "init"
    /\ \E call \in SelfAlignCalls \cup LoadedAlignCalls : align_data(call)

StageEstimate ==
    /\ op = "init"
    /\ \E call \in PipelineEstimateCalls : calculate_optimal_hedge_ratio(call)
    /\ UNCHANGED calls

StageEffectiveness ==
    /\ op = "init"
    /\ \E call \in CalculateHedgeEffectivenessCalls : calculate_hedge_effectiveness(call)
    /\ UNCHANGED calls

StageSensitivity ==
    /\ op = "init"
    /\ \E call \in SensitivityAnalysisCalls : sensitivity_analysis(call)
    /\ UNCHANGED calls

StageBacktest ==
    /\ op = "init"
    /\ \E call \in RunBacktestCalls : run_backtest(call)
    /\ UNCHANGED <<calls, last_calculation>>

StageIdentify ==
    /\ op = "init"
    /\ \E call \in StressIdentifyCalls : identify_stress_periods(call)
    /\ UNCHANGED <<calls, last_calculation>>

StageStressTest ==
    /\ op = "init"
    /\ \E call \in RunStressTestCalls : run_stress_test(call)
    /\ UNCHANGED <<calls, last_calculation>>

NextPipeline ==
    \/ StageAlign
    \/ StageEstimate
    \/ StageEffectiveness
    \/ StageSensitivity
    \/ StageBacktest
    \/ StageIdentify
    \/ StageStressTest

SpecPipeline == Init /\ [][NextPipeline]_vars


(***************************************************************************)
(* Properties of the pipeline, checked under SpecPipeline.                 *)
(***************************************************************************)
SeriesStages ==
    {"calculate_optimal_hedge_ratio", "calculate_hedge_effectiveness",
     "sensitivity_analysis", "run_backtest", "identify_stress_periods"}

RunFailed == op = "run_backtest" /\ raised # NoError

\* What a query answers when the cached backtest is cached.
AnswerFrom(cached, query, query_args) ==
    IF cached = None THEN None
    ELSE IF query = "get_period_analysis"
         THEN IF DateSlice(cached.data, query_args.start_date, query_args.end_date) = <<>>
              THEN None
              ELSE PeriodAnalysis(cached, query_args.start_date, query_args.end_date)
    ELSE IF query = "calculate_rolling_metrics"
         THEN RollingMetrics(cached, query_args.window_size)
    ELSE PerformanceSummary(cached)

\* C28: a run_backtest that raises returns nothing and leaves the cached
\* backtest as it was, so a query that follows a failing run answers from the
\* result of the last run that returned, and raises the state error when no
\* run has returned yet.
C28_FailedRunKeepsCache ==
    [][/\ RunFailed' =>
            /\ ret' = None
            /\ backtest_results' = backtest_results
            /\ backtest_results' = (IF last_run = None THEN None ELSE last_run.ret)
       /\ (RunFailed /\ op' \in Queries) =>
            /\ (last_run = None) <=> (raised' = ErrNoBacktest)
            /\ ret' = AnswerFrom(IF last_run = None THEN None ELSE last_run.ret,
                                 op', args')]_vars

\* A run that raised on an engine that holds the result of an earlier run.
C28_Witness ==
    /\ RunFailed
    /\ last_run # None
    /\ last_run.raised = NoError
    /\ backtest_results = last_run.ret
    /\ backtest_results.data # <<>>


(***************************************************************************)
(* The shape of the detected list, checked under SpecDetect.               *)
(***************************************************************************)
\* The rows of the series whose labels lie in the period's row range.
RowsInside(data, period) ==
    {i \in 1..Len(data) : data[i].idx >= period.start_index /\ data[i].idx <= period.end_index}

\* The list is in date order, its row ranges are disjoint and parted by a day
\* that is not extreme, and each period is a stretch of extreme days of at
\* least min_consecutive_days that leaves the first day of the series out.
WellFormedPeriods(periods, data, price_change_threshold, min_consecutive_days) ==
    LET extreme == ExtremeDays(data, price_change_threshold)
    IN  /\ \A k \in 1..Len(periods) :
              /\ periods[k].start_index <= periods[k].end_index
              /\ periods[k].duration_days =
                    periods[k].end_index - periods[k].start_index + 1
              /\ periods[k].duration_days >= min_consecutive_days
              /\ \A i \in RowsInside(data, periods[k]) : extreme[i]
              /\ 1 \notin RowsInside(data, periods[k])
        /\ \A k \in 1..(Len(periods) - 1) :
              /\ periods[k].end_date < periods[k + 1].start_date
              /\ periods[k].end_index < periods[k + 1].start_index
              /\ \E i \in 1..Len(data) :
                    /\ data[i].idx > periods[k].end_index
                    /\ data[i].idx < periods[k + 1].start_index
                    /\ ~extreme[i]

\* C29: one identify_stress_periods call on a series returns its list, and
\* the list is in ascending date order, with disjoint row ranges parted by at
\* least one day that is not extreme; every period has start_index <=
\* end_index and duration_days = end_index - start_index + 1 >=
\* min_consecutive_days, holds extreme days only, and never the first day.
C29_PeriodsWellFormed ==
    (op = "identify_stress_periods" /\ args.aligned_data # <<>>) =>
        /\ raised = NoError
        /\ WellFormedPeriods(ret.periods, args.aligned_data,
                             args.price_change_threshold, args.min_consecutive_days)


(***************************************************************************)
(* The stress test without a tested period, checked under SpecStress.      *)
(***************************************************************************)
\* The call is driven by the detection, which finds no run of the default
\* length in the record set, or by a supplied list that is empty.
NoPeriodToTest ==
    /\ GivenBacktest
    /\ args.custom_period = None
    /\ \/ /\ args.stress_periods = None
          /\ LongRuns(args.backtest_results.data, DefaultThreshold, DefaultMinDays) = {}
       \/ /\ args.stress_periods # None
          /\ args.stress_periods.list = <<>>

\* C30: a run_stress_test driven by the detection or by supplied periods
\* that has no period to test does not raise: it returns an empty list of
\* period results, an empty summary and a normal-period comparison over the
\* full record set, and stores this result as the last stress result.
C30_NoPeriodTested ==
    NoPeriodToTest =>
        /\ raised = NoError
        /\ ret.stress_periods = <<>>
        /\ ret.summary = EmptyDict
        /\ ret.normal_period_comparison.period_rows =
              Column(args.backtest_results.data, "date")
        /\ stress_results = ret

====
